---- MODULE Spec2Model ----
(***************************************************************************)
(* Model of the map-file analysis core of embedded-map-file-analyzer:      *)
(*   backend/parser/parseMapFile.js   parseMapFile, aggregateSections      *)
(*   frontend/src/utils/sectionUtils.ts   aggregateSections                *)
(*   backend/utils/compareAnalysis.js compareAnalyses, computeFileGroups,  *)
(*                                    detectAnomalies                      *)
(*                                                                         *)
(* A JavaScript string is a sequence of one-character strings, so that     *)
(* the regular expressions, split/join, trim and parseInt of the source    *)
(* are computed character by character.  JavaScript null is the value      *)
(* Null, a one-element sequence that no character sequence equals.         *)
(***************************************************************************)
EXTENDS Integers, Sequences, FiniteSets, TLC

VARIABLES
    contentA,      \* text of the first uploaded map file
    contentB,      \* text of the second uploaded map file
    analysisA,     \* parseMapFile(fileA)
    analysisB,     \* parseMapFile(fileB)
    aggBackend,    \* backend aggregateSections(analysisA.sections)
    aggFrontend,   \* frontend aggregateSections(analysisA.sections)
    compareResult, \* compareAnalyses(analysisA, analysisB, options)
    pc,            \* which calls have been made
    diffResult,    \* computeMemoryDiff(analysisA, analysisB, options)
    diffSwapped,   \* computeMemoryDiff(analysisB, analysisA, options)
    compareStore,  \* the Map of compareStorage.js: id -> {result, expiresAt, createdAt}
    now,           \* Date.now(), in milliseconds
    lastCall,      \* the last call made on the store, what it returned and removed
    puts           \* history: the storeComparison calls not followed by a delete of their id

diffVars == <<diffResult, diffSwapped>>

storeVars == <<compareStore, now, lastCall, puts>>

vars == <<contentA, contentB, analysisA, analysisB, aggBackend, aggFrontend,
          compareResult, pc, diffVars, storeVars>>

-----------------------------------------------------------------------------
(* Characters and strings                                                  *)

Null == <<"null">>

\* JavaScript undefined in a numeric field (Section.subsections?: number)
Undefined == -1

Upper == {"A","B","C","D","E","F","G","H","I","J","K","L","M",
          "N","O","P","Q","R","S","T","U","V","W","X","Y","Z"}

Lower == {"a","b","c","d","e","f","g","h","i","j","k","l","m",
          "n","o","p","q","r","s","t","u","v","w","x","y","z"}

Digit == {"0","1","2","3","4","5","6","7","8","9"}

\* \s of the regular expressions and of String.prototype.trim
WhiteSpace == {" ", "\t", "\n", "\r"}

\* the characters that . of a regular expression does not match
LineTerminator == {"\n", "\r"}

\* [0-9a-fA-F]
HexDigit == Digit \cup {"a","b","c","d","e","f","A","B","C","D","E","F"}

\* [a-zA-Z0-9_\.]
SectionNameChar == Lower \cup Upper \cup Digit \cup {"_", "."}

\* [A-Z_]
MemoryNameChar == Upper \cup {"_"}

HexDigitValue(c) ==
    CASE c = "0" -> 0 [] c = "1" -> 1 [] c = "2" -> 2 [] c = "3" -> 3
      [] c = "4" -> 4 [] c = "5" -> 5 [] c = "6" -> 6 [] c = "7" -> 7
      [] c = "8" -> 8 [] c = "9" -> 9
      [] c \in {"a","A"} -> 10 [] c \in {"b","B"} -> 11
      [] c \in {"c","C"} -> 12 [] c \in {"d","D"} -> 13
      [] c \in {"e","E"} -> 14 [] c \in {"f","F"} -> 15

\* parseInt(s, 16) of a non-empty string of hexadecimal digits
RECURSIVE ParseHex(_)
ParseHex(s) ==
    IF s = <<>> THEN 0
    ELSE 16 * ParseHex(SubSeq(s, 1, Len(s) - 1)) + HexDigitValue(s[Len(s)])

\* the end (exclusive) of the longest run of characters of class from index i
RECURSIVE RunEnd(_, _, _)
RunEnd(s, i, class) ==
    IF i <= Len(s) /\ s[i] \in class THEN RunEnd(s, i + 1, class) ELSE i

\* s.startsWith(p), and the same test at index i
StartsWithAt(s, i, p) ==
    /\ i + Len(p) - 1 <= Len(s)
    /\ \A k \in 1..Len(p) : s[i + k - 1] = p[k]

StartsWith(s, p) == StartsWithAt(s, 1, p)

\* the characters of s from index a to index b, as far as s has them
Substring(s, a, b) ==
    LET e == IF b < Len(s) THEN b ELSE Len(s)
    IN  IF a < 1 \/ a > e THEN <<>> ELSE SubSeq(s, a, e)

\* s.includes(c) for a single character c
Includes(s, c) == \E i \in 1..Len(s) : s[i] = c

\* s.split(c) for a single character c: always at least one piece
RECURSIVE Split(_, _)
Split(s, c) ==
    IF ~Includes(s, c) THEN <<s>>
    ELSE LET i == CHOOSE k \in 1..Len(s) :
                      s[k] = c /\ \A j \in 1..(k - 1) : s[j] # c
         IN  <<SubSeq(s, 1, i - 1)>> \o Split(SubSeq(s, i + 1, Len(s)), c)

\* pieces.join(c)
RECURSIVE Join(_, _)
Join(pieces, c) ==
    IF pieces = <<>> THEN <<>>
    ELSE IF Len(pieces) = 1 THEN pieces[1]
    ELSE pieces[1] \o <<c>> \o Join(Tail(pieces), c)

\* array.slice(0, n)
Slice0(a, n) == SubSeq(a, 1, IF Len(a) < n THEN Len(a) ELSE n)

\* array.pop() of a non-empty array: its last element
Pop(a) == a[Len(a)]

\* s.trim()
Trim(s) ==
    LET keep == {i \in 1..Len(s) : s[i] \notin WhiteSpace}
    IN  IF keep = {} THEN <<>>
        ELSE SubSeq(s, CHOOSE i \in keep : \A j \in keep : i <= j,
                       CHOOSE i \in keep : \A j \in keep : j <= i)

Abs(n) == IF n < 0 THEN -n ELSE n

\* array.reverse()
Reverse(a) == [i \in 1..Len(a) |-> a[Len(a) + 1 - i]]

-----------------------------------------------------------------------------
(* Array.prototype.sort: stable, by a lexicographic key, larger key first  *)

\* the comparator returns a positive number: b is placed before a
RECURSIVE KeyLess(_, _)
KeyLess(ka, kb) ==
    /\ ka # <<>>
    /\ \/ ka[1] < kb[1]
       \/ ka[1] = kb[1] /\ KeyLess(Tail(ka), Tail(kb))

RECURSIVE InsertDesc(_, _)
InsertDesc(sorted, p) ==
    IF sorted = <<>> THEN <<p>>
    ELSE IF KeyLess(sorted[1].key, p.key) THEN <<p>> \o sorted
    ELSE <<sorted[1]>> \o InsertDesc(Tail(sorted), p)

RECURSIVE SortPairsDesc(_)
SortPairsDesc(pairs) ==
    IF pairs = <<>> THEN <<>>
    ELSE InsertDesc(SortPairsDesc(SubSeq(pairs, 1, Len(pairs) - 1)),
                    pairs[Len(pairs)])

\* a.sort(cmp) where cmp orders by keys[i], the key of a[i], descending
StableSortDesc(a, keys) ==
    LET sorted == SortPairsDesc([i \in 1..Len(a) |-> [key |-> keys[i], val |-> a[i]]])
    IN  [i \in 1..Len(a) |-> sorted[i].val]

-----------------------------------------------------------------------------
(* parseMapFile                                                            *)

MemoryMarker ==
    <<"M","e","m","o","r","y"," ","C","o","n","f","i","g","u","r","a","t","i","o","n">>

LinkerScriptMarker ==
    <<"\n","L","i","n","k","e","r"," ","s","c","r","i","p","t">>

HexPrefix == <<"0", "x">>

\* the end (exclusive) of the longest run of characters outside class
RECURSIVE RunEndNot(_, _, _)
RunEndNot(s, i, class) ==
    IF i <= Len(s) /\ s[i] \notin class THEN RunEndNot(s, i + 1, class) ELSE i

Max(S) == CHOOSE x \in S : \A y \in S : y <= x
Min(S) == CHOOSE x \in S : \A y \in S : x <= y

\* /Memory Configuration\s+([\s\S]*?)(?=\n\n|\nLinker script)/ : group 1 of
\* the leftmost match, or Null when content.match returns null
MemoryMatch(content) ==
    LET ends == {t \in 1..Len(content) :
                    \/ StartsWithAt(content, t, <<"\n", "\n">>)
                    \/ StartsWithAt(content, t, LinkerScriptMarker)}
        \* \s+ may stop at any e after at least one white-space character
        stops(i) == {e \in (i + Len(MemoryMarker) + 1) ..
                           RunEnd(content, i + Len(MemoryMarker), WhiteSpace) :
                        \E t \in ends : t >= e}
        starts == {i \in 1..Len(content) :
                     StartsWithAt(content, i, MemoryMarker) /\ stops(i) # {}}
    IN  IF starts = {} THEN Null
        ELSE LET i == Min(starts)
                 e == Max(stops(i))              \* \s+ is greedy
                 t == Min({u \in ends : u >= e}) \* the group is lazy
             IN  SubSeq(content, e, t - 1)

\* /^([A-Z_]+)\s+0x([0-9a-fA-F]+)\s+0x([0-9a-fA-F]+)/gm at index p of s
MemoryLineMatch(s, p) ==
    LET a == RunEnd(s, p, MemoryNameChar)
        b == RunEnd(s, a, WhiteSpace)
        c == RunEnd(s, b + 2, HexDigit)
        d == RunEnd(s, c, WhiteSpace)
        e == RunEnd(s, d + 2, HexDigit)
    IN  [matched |-> /\ p = 1 \/ s[p - 1] \in LineTerminator
                     /\ a > p /\ b > a
                     /\ StartsWithAt(s, b, HexPrefix) /\ c > b + 2 /\ d > c
                     /\ StartsWithAt(s, d, HexPrefix) /\ e > d + 2,
         name   |-> Substring(s, p, a - 1),
         origin |-> Substring(s, b + 2, c - 1),
         length |-> Substring(s, d + 2, e - 1),
         end    |-> e]

\* the while loop over memoryLineRegex.exec: result.memory as a function
\* from region name to its record; a later line replaces an earlier one
RECURSIVE ParseMemoryLines(_, _, _)
ParseMemoryLines(s, pos, memory) ==
    LET hits == {p \in pos..Len(s) : MemoryLineMatch(s, p).matched}
    IN  IF hits = {} THEN memory
        ELSE LET m == MemoryLineMatch(s, Min(hits))
                 entry == [origin      |-> HexPrefix \o m.origin,
                           length      |-> HexPrefix \o m.length,
                           lengthBytes |-> ParseHex(m.length)]
             IN  ParseMemoryLines(s, m.end,
                    [n \in DOMAIN memory \cup {m.name} |->
                        IF n = m.name THEN entry ELSE memory[n]])

EmptyMemory == [n \in {} |-> 0]

ParseMemory(content) ==
    LET memorySection == MemoryMatch(content)
    IN  IF memorySection = Null THEN EmptyMemory
        ELSE ParseMemoryLines(memorySection, 1, EmptyMemory)

\* line.match(/^\s*(\.[a-zA-Z0-9_\.]+)\s+0x([0-9a-fA-F]+)\s+0x([0-9a-fA-F]+)(?:\s+(.+))?/)
\* group 4 is <<>> when it did not take part in the match
SectionMatch(line) ==
    LET i == RunEnd(line, 1, WhiteSpace)
        j == RunEnd(line, i + 1, SectionNameChar)
        k == RunEnd(line, j, WhiteSpace)
        m == RunEnd(line, k + 2, HexDigit)
        n == RunEnd(line, m, WhiteSpace)
        q == RunEnd(line, n + 2, HexDigit)
        r == RunEnd(line, q, WhiteSpace)
        \* \s+ is greedy and gives back characters until .+ can match one
        from == {p \in (q + 1)..r : p <= Len(line) /\ line[p] \notin LineTerminator}
    IN  [matched |-> /\ i <= Len(line) /\ line[i] = "."
                     /\ j > i + 1 /\ k > j
                     /\ StartsWithAt(line, k, HexPrefix) /\ m > k + 2 /\ n > m
                     /\ StartsWithAt(line, n, HexPrefix) /\ q > n + 2,
         g1 |-> Substring(line, i, j - 1),
         g2 |-> Substring(line, k + 2, m - 1),
         g3 |-> Substring(line, n + 2, q - 1),
         g4 |-> IF from = {} THEN <<>>
                ELSE Substring(line, Max(from),
                            RunEndNot(line, Max(from), LineTerminator) - 1)]

\* "path/to/main.o" -> "main.o", for either kind of separator
Basename(path) ==
    LET afterSlash == IF path # <<>> /\ Includes(path, "/")
                      THEN Pop(Split(path, "/")) ELSE path
    IN  IF afterSlash # <<>> /\ Includes(afterSlash, "\\")
        THEN Pop(Split(afterSlash, "\\")) ELSE afterSlash

\* the comparator of the parser's and the aggregators' sort: b.size - a.size
SizeKey(s) == <<s.size>>

\* ScanLines without the test size > 0
RECURSIVE ScanLinesKeepZero(_)
ScanLinesKeepZero(lines) ==
    IF lines = <<>> THEN <<>>
    ELSE LET sectionMatch == SectionMatch(lines[1])
             filePath == Basename(Trim(sectionMatch.g4))
         IN  (IF sectionMatch.matched
              THEN <<[name     |-> sectionMatch.g1,
                      address  |-> HexPrefix \o sectionMatch.g2,
                      size     |-> ParseHex(sectionMatch.g3),
                      filePath |-> IF filePath # <<>> THEN filePath ELSE Null]>>
              ELSE <<>>) \o ScanLinesKeepZero(Tail(lines))

\* the sections that the loop over the lines pushes, in scan order
RECURSIVE ScanLines(_)
ScanLines(lines) ==
    IF lines = <<>> THEN <<>>
    ELSE LET sectionMatch == SectionMatch(lines[1])
             size == ParseHex(sectionMatch.g3)
             filePath == Basename(Trim(sectionMatch.g4))
         IN  (IF sectionMatch.matched /\ size > 0
              THEN <<[name     |-> sectionMatch.g1,
                      address  |-> HexPrefix \o sectionMatch.g2,
                      size     |-> size,
                      filePath |-> IF filePath # <<>> THEN filePath ELSE Null]>>
              ELSE <<>>) \o ScanLines(Tail(lines))

\* SortBySize as an ascending sort that is then reversed: equal sizes end
\* in reverse scan order
SortBySizeReversed(sections) ==
    Reverse(StableSortDesc(sections,
                           [i \in 1..Len(sections) |-> <<-sections[i].size>>]))

SortBySize(sections) ==
    StableSortDesc(sections, [i \in 1..Len(sections) |-> SizeKey(sections[i])])

parseMapFile(content) ==
    [memory   |-> ParseMemory(content),
     sections |-> SortBySize(ScanLines(Split(content, "\n")))]

-----------------------------------------------------------------------------
(* aggregateSections, backend and frontend                                 *)
(* The Map is the sequence of its values in insertion order; the key of a  *)
(* value is its name.                                                      *)

IndexOfName(groups, name) ==
    IF \E i \in 1..Len(groups) : groups[i].name = name
    THEN CHOOSE i \in 1..Len(groups) : groups[i].name = name
    ELSE 0

\* a || b for a numeric field: undefined and 0 are falsy
OrElse(a, b) == IF a = Undefined \/ a = 0 THEN b ELSE a

\* BackendParentName with slice(0, 3)
BackendParentNameThree(name) == Join(Slice0(Split(name, "."), 3), ".")

\* section.name.split('.').slice(0, 2).join('.')
BackendParentName(name) == Join(Slice0(Split(name, "."), 2), ".")

\* BackendAggregateStep with existing.size = section.size
BackendAggregateStepAssign(aggregated, section) ==
    LET parentName == BackendParentName(section.name)
        i == IndexOfName(aggregated, parentName)
    IN  IF i # 0
        THEN [aggregated EXCEPT
                 ![i].size = section.size,
                 ![i].subsections = OrElse(@, 0) + 1]
        ELSE Append(aggregated, [name        |-> parentName,
                                 size        |-> section.size,
                                 subsections |-> 1,
                                 filePath    |-> Null])

\* the callback of sections.forEach in the backend
BackendAggregateStep(aggregated, section) ==
    LET parentName == BackendParentName(section.name)
        i == IndexOfName(aggregated, parentName)
    IN  IF i # 0
        THEN [aggregated EXCEPT
                 ![i].size = @ + section.size,
                 ![i].subsections = OrElse(@, 0) + 1]
        ELSE Append(aggregated, [name        |-> parentName,
                                 size        |-> section.size,
                                 subsections |-> 1,
                                 filePath    |-> Null])

RECURSIVE BackendForEach(_, _)
BackendForEach(aggregated, sections) ==
    IF sections = <<>> THEN aggregated
    ELSE BackendForEach(BackendAggregateStep(aggregated, sections[1]), Tail(sections))

BackendAggregateSections(sections) == SortBySize(BackendForEach(<<>>, sections))

\* parts.length > 2 ? parts.slice(0, 2).join('.') : section.name
FrontendParentName(name) ==
    LET parts == Split(name, ".")
    IN  IF Len(parts) > 2 THEN Join(Slice0(parts, 2), ".") ELSE name

\* the callback of sections.forEach in the frontend
FrontendAggregateStep(aggregated, section) ==
    LET parts == Split(section.name, ".")
        parentName == FrontendParentName(section.name)
        i == IndexOfName(aggregated, parentName)
    IN  IF i # 0
        THEN [aggregated EXCEPT
                 ![i].size = @ + section.size,
                 ![i].subsections = OrElse(@, 1) + 1]
        ELSE Append(aggregated,
                    [name        |-> parentName,
                     size        |-> section.size,
                     subsections |-> IF Len(parts) > 2 THEN 1 ELSE Undefined,
                     filePath    |-> IF Len(parts) > 2 THEN Null ELSE section.filePath])

RECURSIVE FrontendForEach(_, _)
FrontendForEach(aggregated, sections) ==
    IF sections = <<>> THEN aggregated
    ELSE FrontendForEach(FrontendAggregateStep(aggregated, sections[1]), Tail(sections))

FrontendAggregateSections(sections) == SortBySize(FrontendForEach(<<>>, sections))

-----------------------------------------------------------------------------
(* compareAnalyses, computeFileGroups, detectAnomalies                     *)
(* A percentage is held in hundredths of a percent: deltaPct = 2000 is the *)
(* JavaScript number 20.00.                                                *)

\* parseFloat(x.toFixed(2)) for x = 100 * num / den, in hundredths: the
\* nearest hundredth, a tie going away from zero
ToFixed2Pct(num, den) ==
    LET n == Abs(num) * 10000
        q == (2 * n + den) \div (2 * den)
    IN  IF num < 0 THEN -q ELSE q

\* the keys of new Map(sections.map(s => [s.name, s])), in insertion order
RECURSIVE MapKeys(_)
MapKeys(sections) ==
    IF sections = <<>> THEN <<>>
    ELSE LET front == SubSeq(sections, 1, Len(sections) - 1)
             last  == sections[Len(sections)]
         IN  IF \E i \in 1..Len(front) : front[i].name = last.name
             THEN MapKeys(front)
             ELSE Append(MapKeys(front), last.name)

MapHas(sections, name) == \E i \in 1..Len(sections) : sections[i].name = name

\* Map.get(name) for a key of the map: the last entry set for the key
MapGet(sections, name) ==
    sections[Max({i \in 1..Len(sections) : sections[i].name = name})]

\* new Set([...sectionsA.keys(), ...sectionsB.keys()]), in insertion order
AllSectionNames(sectionsA, sectionsB) ==
    MapKeys(sectionsA) \o
    SelectSeq(MapKeys(sectionsB), LAMBDA n : ~MapHas(sectionsA, n))

\* a || b || null for file paths and addresses: Null is the only falsy value
\* the parser produces
OrNull(a, b) == IF a # Null THEN a ELSE b

\* DiffStatus with 'added' and 'removed' exchanged
DiffStatusSwapped(sizeA, sizeB) ==
    IF sizeA = 0 THEN "removed" ELSE IF sizeB = 0 THEN "added" ELSE "modified"

\* sizeA === 0 ? 'added' : sizeB === 0 ? 'removed' : 'modified'
DiffStatus(sizeA, sizeB) ==
    IF sizeA = 0 THEN "added" ELSE IF sizeB = 0 THEN "removed" ELSE "modified"

\* the object that the loop pushes for name (lines 31-54)
SectionDiff(sectionsA, sectionsB, name) ==
    LET hasA  == MapHas(sectionsA, name)
        hasB  == MapHas(sectionsB, name)
        sizeA == IF hasA THEN MapGet(sectionsA, name).size ELSE 0
        sizeB == IF hasB THEN MapGet(sectionsB, name).size ELSE 0
        delta == sizeB - sizeA
    IN  [name     |-> name,
         file     |-> OrNull(IF hasB THEN MapGet(sectionsB, name).filePath ELSE Null,
                             IF hasA THEN MapGet(sectionsA, name).filePath ELSE Null),
         addressA |-> IF hasA THEN MapGet(sectionsA, name).address ELSE Null,
         addressB |-> IF hasB THEN MapGet(sectionsB, name).address ELSE Null,
         sizeA    |-> sizeA,
         sizeB    |-> sizeB,
         delta    |-> delta,
         deltaPct |-> IF sizeA > 0 THEN ToFixed2Pct(delta, sizeA)
                      ELSE IF sizeB > 0 THEN 10000 ELSE 0,
         status   |-> DiffStatus(sizeA, sizeB)]

\* SkipUnchanged with the option inverted
SkipUnchangedInverted(includeUnchanged, diff) == includeUnchanged /\ diff.delta = 0

\* if (!includeUnchanged && delta === 0) continue
SkipUnchanged(includeUnchanged, diff) == ~includeUnchanged /\ diff.delta = 0

\* sectionDiffs as the loop over allSectionNames leaves it
SectionDiffs(sectionsA, sectionsB, includeUnchanged) ==
    LET names == AllSectionNames(sectionsA, sectionsB)
        all   == [i \in 1..Len(names) |-> SectionDiff(sectionsA, sectionsB, names[i])]
    IN  SelectSeq(all, LAMBDA d : ~SkipUnchanged(includeUnchanged, d))

AbsDeltaKey(x) == <<Abs(x.delta)>>

SortByAbsDelta(a) == StableSortDesc(a, [i \in 1..Len(a) |-> AbsDeltaKey(a[i])])

UnknownFile == <<"u","n","k","n","o","w","n">>

IndexOfFile(groups, file) ==
    IF \E i \in 1..Len(groups) : groups[i].file = file
    THEN CHOOSE i \in 1..Len(groups) : groups[i].file = file
    ELSE 0

\* FileGroupStep with group.delta = section.delta
FileGroupStepAssign(fileMap, section) ==
    LET fileName == OrNull(section.file, UnknownFile)
        had      == IndexOfFile(fileMap, fileName)
        groups   == IF had # 0 THEN fileMap
                    ELSE Append(fileMap, [file |-> fileName, sizeA |-> 0, sizeB |-> 0,
                                          delta |-> 0, deltaPct |-> 0,
                                          sectionCount |-> 0, sections |-> <<>>])
        i        == IndexOfFile(groups, fileName)
    IN  [groups EXCEPT ![i].sizeA = @ + section.sizeA,
                       ![i].sizeB = @ + section.sizeB,
                       ![i].delta = section.delta,
                       ![i].sectionCount = @ + 1,
                       ![i].sections = Append(@, section.name)]

\* one iteration of the loop of computeFileGroups (lines 136-157)
FileGroupStep(fileMap, section) ==
    LET fileName == OrNull(section.file, UnknownFile)
        had      == IndexOfFile(fileMap, fileName)
        groups   == IF had # 0 THEN fileMap
                    ELSE Append(fileMap, [file |-> fileName, sizeA |-> 0, sizeB |-> 0,
                                          delta |-> 0, deltaPct |-> 0,
                                          sectionCount |-> 0, sections |-> <<>>])
        i        == IndexOfFile(groups, fileName)
    IN  [groups EXCEPT ![i].sizeA = @ + section.sizeA,
                       ![i].sizeB = @ + section.sizeB,
                       ![i].delta = @ + section.delta,
                       ![i].sectionCount = @ + 1,
                       ![i].sections = Append(@, section.name)]

RECURSIVE FileGroupLoop(_, _)
FileGroupLoop(fileMap, sectionDiffs) ==
    IF sectionDiffs = <<>> THEN fileMap
    ELSE FileGroupLoop(FileGroupStep(fileMap, sectionDiffs[1]), Tail(sectionDiffs))

computeFileGroups(sectionDiffs) ==
    LET fileMap == FileGroupLoop(<<>>, sectionDiffs)
    IN  SortByAbsDelta(
            [i \in 1..Len(fileMap) |->
                [fileMap[i] EXCEPT !.deltaPct =
                    IF fileMap[i].sizeA > 0
                    THEN ToFixed2Pct(fileMap[i].delta, fileMap[i].sizeA)
                    ELSE IF fileMap[i].sizeB > 0 THEN 10000 ELSE 0]])

RECURSIVE SumOf(_)
SumOf(numbers) ==
    IF numbers = <<>> THEN 0 ELSE numbers[1] + SumOf(Tail(numbers))

SumSize(sections) == SumOf([i \in 1..Len(sections) |-> sections[i].size])

SumDelta(diffs) == SumOf([i \in 1..Len(diffs) |-> diffs[i].delta])

P_text   == <<".","t","e","x","t">>
P_rodata == <<".","r","o","d","a","t","a">>
P_data   == <<".","d","a","t","a">>
P_bss    == <<".","b","s","s">>

IsFlash(s) == StartsWith(s.name, P_text) \/ StartsWith(s.name, P_rodata)

IsRam(s) == StartsWith(s.name, P_data) \/ StartsWith(s.name, P_bss)

\* SectionReasons with >= in the percentage test
SectionReasonsAtLeast(section, thresholdPct, thresholdBytes) ==
    (IF Abs(section.deltaPct) >= thresholdPct * 100
     THEN <<[kind |-> "pct", value |-> Abs(section.deltaPct)]>> ELSE <<>>) \o
    (IF Abs(section.delta) > thresholdBytes
     THEN <<[kind |-> "bytes", value |-> Abs(section.delta)]>> ELSE <<>>) \o
    (IF section.status = "added" /\ section.sizeB > thresholdBytes * 2
     THEN <<[kind |-> "new", value |-> section.sizeB]>> ELSE <<>>) \o
    (IF section.status = "removed" /\ section.sizeA > thresholdBytes * 2
     THEN <<[kind |-> "removed", value |-> section.sizeA]>> ELSE <<>>)

\* SectionReasons that stops at the first condition that holds
SectionReasonsFirstOnly(section, thresholdPct, thresholdBytes) ==
    IF Abs(section.deltaPct) > thresholdPct * 100
    THEN <<[kind |-> "pct", value |-> Abs(section.deltaPct)]>>
    ELSE IF Abs(section.delta) > thresholdBytes
    THEN <<[kind |-> "bytes", value |-> Abs(section.delta)]>>
    ELSE IF section.status = "added" /\ section.sizeB > thresholdBytes * 2
    THEN <<[kind |-> "new", value |-> section.sizeB]>>
    ELSE IF section.status = "removed" /\ section.sizeA > thresholdBytes * 2
    THEN <<[kind |-> "removed", value |-> section.sizeA]>>
    ELSE <<>>

\* the reasons of one section diff (lines 178-198); a reason is the kind of
\* its message and the number the message shows
SectionReasons(section, thresholdPct, thresholdBytes) ==
    (IF Abs(section.deltaPct) > thresholdPct * 100
     THEN <<[kind |-> "pct", value |-> Abs(section.deltaPct)]>> ELSE <<>>) \o
    (IF Abs(section.delta) > thresholdBytes
     THEN <<[kind |-> "bytes", value |-> Abs(section.delta)]>> ELSE <<>>) \o
    (IF section.status = "added" /\ section.sizeB > thresholdBytes * 2
     THEN <<[kind |-> "new", value |-> section.sizeB]>> ELSE <<>>) \o
    (IF section.status = "removed" /\ section.sizeA > thresholdBytes * 2
     THEN <<[kind |-> "removed", value |-> section.sizeA]>> ELSE <<>>)

\* an anomaly of type 'section'; affectedSections is absent
SectionAnomaly(section, thresholdPct, thresholdBytes) ==
    [type     |-> "section",
     name     |-> section.name,
     file     |-> section.file,
     severity |-> IF Abs(section.delta) > thresholdBytes * 10 THEN "high" ELSE "medium",
     reasons  |-> SectionReasons(section, thresholdPct, thresholdBytes),
     delta    |-> section.delta,
     deltaPct |-> section.deltaPct,
     affectedSections |-> Undefined]

\* the reasons of one file group (lines 215-229)
FileReasons(group, sectionDiffs, thresholdBytes) ==
    LET smallIncreases ==
            SelectSeq(sectionDiffs, LAMBDA s :
                s.file = group.file /\ s.delta > 0 /\ s.delta < thresholdBytes)
    IN  (IF Len(smallIncreases) > 5
         THEN <<[kind |-> "small", value |-> Len(smallIncreases)]>> ELSE <<>>) \o
        (IF Abs(group.delta) > thresholdBytes * 5
         THEN <<[kind |-> "total", value |-> group.delta]>> ELSE <<>>)

\* an anomaly of type 'file'; file is absent
FileAnomaly(group, sectionDiffs, thresholdBytes) ==
    [type     |-> "file",
     name     |-> group.file,
     file     |-> Null,
     severity |-> IF Abs(group.delta) > thresholdBytes * 20 THEN "high" ELSE "low",
     reasons  |-> FileReasons(group, sectionDiffs, thresholdBytes),
     delta    |-> group.delta,
     deltaPct |-> group.deltaPct,
     affectedSections |-> group.sectionCount]

BssPatternName == <<".","b","s","s"," ","s","e","c","t","i","o","n","s">>

\* the anomaly of type 'pattern' (lines 245-257), in a list of none or one;
\* file and deltaPct are absent
BssAnomaly(sectionDiffs, thresholdBytes) ==
    LET bssSections   == SelectSeq(sectionDiffs, LAMBDA s : StartsWith(s.name, P_bss))
        totalBssDelta == SumDelta(bssSections)
    IN  IF totalBssDelta > thresholdBytes * 5
        THEN <<[type     |-> "pattern",
                name     |-> BssPatternName,
                file     |-> Null,
                severity |-> "medium",
                reasons  |-> <<[kind |-> "bss", value |-> totalBssDelta]>>,
                delta    |-> totalBssDelta,
                deltaPct |-> Undefined,
                affectedSections |->
                    Len(SelectSeq(bssSections, LAMBDA s : s.delta > 0))]>>
        ELSE <<>>

\* const severityOrder = { high: 3, medium: 2, low: 1 }
SeverityOrder(severity) ==
    CASE severity = "high" -> 3 [] severity = "medium" -> 2 [] severity = "low" -> 1

AnomalyKey(a) == <<SeverityOrder(a.severity), Abs(a.delta)>>

detectAnomalies(sectionDiffs, fileGroups, thresholdPct, thresholdBytes) ==
    LET sectionAll == [i \in 1..Len(sectionDiffs) |->
                          SectionAnomaly(sectionDiffs[i], thresholdPct, thresholdBytes)]
        fileAll    == [i \in 1..Len(fileGroups) |->
                          FileAnomaly(fileGroups[i], sectionDiffs, thresholdBytes)]
        anomalies  == SelectSeq(sectionAll, LAMBDA a : Len(a.reasons) > 0) \o
                      SelectSeq(fileAll, LAMBDA a : Len(a.reasons) > 0) \o
                      BssAnomaly(sectionDiffs, thresholdBytes)
    IN  StableSortDesc(anomalies, [i \in 1..Len(anomalies) |-> AnomalyKey(anomalies[i])])

DeltaKey(x) == <<x.delta>>

\* metadata.comparedAt, the wall-clock time of the call, is left out
\* sortedByDelta.filter(s => s.delta > 0).slice(0, topN)
TopIncreases(sortedByDelta, topN) ==
    Slice0(SelectSeq(sortedByDelta, LAMBDA s : s.delta > 0), topN)

\* The top decreases without the reversal: the smallest shrink comes first.
TopDecreasesUnreversed(sortedByDelta, topN) ==
    Slice0(SelectSeq(sortedByDelta, LAMBDA s : s.delta < 0), topN)

\* sortedByDelta.filter(s => s.delta < 0).reverse().slice(0, topN)
TopDecreases(sortedByDelta, topN) ==
    Slice0(Reverse(SelectSeq(sortedByDelta, LAMBDA s : s.delta < 0)), topN)

compareAnalyses(a, b, options) ==
    LET sectionDiffs == SectionDiffs(a.sections, b.sections, options.includeUnchanged)
        fileGroups   == computeFileGroups(sectionDiffs)
        totalFlashA  == SumSize(SelectSeq(a.sections, IsFlash))
        totalFlashB  == SumSize(SelectSeq(b.sections, IsFlash))
        totalRamA    == SumSize(SelectSeq(a.sections, IsRam))
        totalRamB    == SumSize(SelectSeq(b.sections, IsRam))
        flashDelta   == totalFlashB - totalFlashA
        ramDelta     == totalRamB - totalRamA
        sortedByDelta ==
            StableSortDesc(sectionDiffs,
                           [i \in 1..Len(sectionDiffs) |-> DeltaKey(sectionDiffs[i])])
    IN  [summary |->
            [totalFlashA |-> totalFlashA,
             totalFlashB |-> totalFlashB,
             totalRamA   |-> totalRamA,
             totalRamB   |-> totalRamB,
             flashDelta  |-> flashDelta,
             flashDeltaPct |-> IF totalFlashA > 0
                               THEN ToFixed2Pct(flashDelta, totalFlashA) ELSE 0,
             ramDelta    |-> ramDelta,
             ramDeltaPct |-> IF totalRamA > 0
                             THEN ToFixed2Pct(ramDelta, totalRamA) ELSE 0,
             totalSectionsA |-> Len(a.sections),
             totalSectionsB |-> Len(b.sections),
             sectionsAdded  |->
                 Len(SelectSeq(sectionDiffs, LAMBDA s : s.status = "added")),
             sectionsRemoved |->
                 Len(SelectSeq(sectionDiffs, LAMBDA s : s.status = "removed")),
             sectionsModified |->
                 Len(SelectSeq(sectionDiffs, LAMBDA s : s.status = "modified"))],
         sections     |-> SortByAbsDelta(sectionDiffs),
         fileGroups   |-> fileGroups,
         topIncreases |-> TopIncreases(sortedByDelta, options.topN),
         topDecreases |-> TopDecreases(sortedByDelta, options.topN),
         anomalies    |-> detectAnomalies(sectionDiffs, fileGroups,
                                          options.anomalyThresholdPct,
                                          options.anomalyThresholdBytes),
         metadata     |-> [optionsUsed |-> options]]

-----------------------------------------------------------------------------
(* Inputs: map-file texts made of a few lines                              *)

MaxLines == 3      \* lines of a text given to the parser alone
MaxCmpLines == 2   \* lines of each of the two texts that are compared

SP == <<" ">>

SectionLine(name, address, size, rest) ==
    name \o SP \o HexPrefix \o address \o SP \o HexPrefix \o size \o rest

N_text          == P_text
N_text_main     == P_text \o <<".","m","a","i","n">>
N_text_main_cold == N_text_main \o <<".","c","o","l","d">>
N_bss_x         == P_bss \o <<".","x">>

F_main_o == <<"m","a","i","n",".","o">>
F_util_o == <<"u","t","i","l",".","o">>

\* lines for the parser: section lines with and without a file, with a path
\* of either platform, with a zero size, and the memory configuration block
ParseLines ==
    { SectionLine(N_text, <<"0","8","0","0">>, <<"1","0">>, SP \o F_main_o),
      SectionLine(N_text_main, <<"0","7","7","8">>, <<"0","0","0","0","0","c","0","0">>,
                  SP \o SP \o <<"o","b","j","/">> \o F_main_o),
      SectionLine(N_text_main_cold, <<"0","9","0","0">>, <<"1","0">>,
                  SP \o <<"C",":","\\","o","b","j","\\">> \o F_util_o \o <<"\r">>),
      SectionLine(N_text_main, <<"0","a","0","0">>, <<"1","0">>, SP \o F_util_o),
      SectionLine(P_bss, <<"2","0","0","0">>, <<"0","0">>, SP \o F_main_o),
      SectionLine(P_data, <<"2","1","0","0">>, <<"2","0">>, <<>>),
      <<" ", "\t">> \o SectionLine(P_rodata, <<"0","b","0","0">>, <<"3","e","8">>,
                                   SP \o <<"l","i","b","/">> \o SP),
      MemoryMarker,
      <<"F","L","A","S","H">> \o SP \o HexPrefix \o <<"0","8","0","0","0","0","0","0">>
          \o SP \o HexPrefix \o <<"0","0","1","0","0","0","0","0">> \o SP \o <<"x","r">>,
      Tail(LinkerScriptMarker) }

\* lines for the two texts that are compared
CompareLines ==
    { SectionLine(N_text, <<"0","8","0","0">>, <<"3","e","8">>, SP \o F_main_o),
      SectionLine(N_text, <<"0","8","0","0">>, <<"4","b","0">>, SP \o F_main_o),
      SectionLine(N_bss_x, <<"2","0","0","0">>, <<"1","8","0","0">>, <<>>),
      SectionLine(P_data, <<"2","1","0","0">>, <<"2","0">>, SP \o F_util_o) }

\* the texts of at most n lines drawn from lines
Texts(lines, n) ==
    { Join(ls, "\n") : ls \in UNION { [1..k -> lines] : k \in 0..n } }

TopNs == {1, 20}
ThresholdPcts == {10, 20, 25}
ThresholdBytes == {0, 100, 1024}

Options ==
    [topN : TopNs, anomalyThresholdPct : ThresholdPcts,
     anomalyThresholdBytes : ThresholdBytes, includeUnchanged : BOOLEAN]

-----------------------------------------------------------------------------
(* The calls                                                               *)

NoAnalysis == [memory |-> EmptyMemory, sections |-> <<>>]

NoResult == <<>>

\* the store of a server that has just started: new Map() has no entry, and
\* no call has been made
InitStore ==
    /\ compareStore = <<>>
    /\ now = 0
    /\ lastCall = [op |-> "none", id |-> <<>>, ret |-> <<>>, evicted |-> {}]
    /\ puts = {}

InitResults ==
    /\ analysisA = NoAnalysis
    /\ analysisB = NoAnalysis
    /\ aggBackend = <<>>
    /\ aggFrontend = <<>>
    /\ compareResult = NoResult
    /\ diffResult = NoResult
    /\ diffSwapped = NoResult
    /\ pc = "uploaded"
    /\ InitStore

\* one map file is given to the parser and its sections to the aggregators
InitParse ==
    /\ contentA \in Texts(ParseLines, MaxLines)
    /\ contentB = <<>>
    /\ InitResults

\* two map files are given to the parser and compared
InitCompare ==
    /\ contentA \in Texts(CompareLines, MaxCmpLines)
    /\ contentB \in Texts(CompareLines, MaxCmpLines)
    /\ InitResults

ParseFileA ==
    /\ pc = "uploaded"
    /\ analysisA' = parseMapFile(contentA)
    /\ pc' = "parsedA"
    /\ UNCHANGED <<contentA, contentB, analysisB, aggBackend, aggFrontend, compareResult>>
    /\ UNCHANGED <<diffVars, storeVars>>

ParseFileB ==
    /\ pc = "parsedA"
    /\ analysisB' = parseMapFile(contentB)
    /\ pc' = "parsedB"
    /\ UNCHANGED <<contentA, contentB, analysisA, aggBackend, aggFrontend, compareResult>>
    /\ UNCHANGED <<diffVars, storeVars>>

AggregateBackend ==
    /\ pc = "parsedA"
    /\ aggBackend' = BackendAggregateSections(analysisA.sections)
    /\ pc' = "aggregatedBackend"
    /\ UNCHANGED <<contentA, contentB, analysisA, analysisB, aggFrontend, compareResult>>
    /\ UNCHANGED <<diffVars, storeVars>>

AggregateFrontend ==
    /\ pc = "aggregatedBackend"
    /\ aggFrontend' = FrontendAggregateSections(analysisA.sections)
    /\ pc' = "aggregated"
    /\ UNCHANGED <<contentA, contentB, analysisA, analysisB, aggBackend, compareResult>>
    /\ UNCHANGED <<diffVars, storeVars>>

CompareAnalyses ==
    /\ pc = "parsedB"
    /\ \E options \in Options :
          compareResult' = compareAnalyses(analysisA, analysisB, options)
    /\ pc' = "compared"
    /\ UNCHANGED <<contentA, contentB, analysisA, analysisB, aggBackend, aggFrontend>>
    /\ UNCHANGED <<diffVars, storeVars>>

NextParse == ParseFileA \/ AggregateBackend \/ AggregateFrontend

NextCompare == ParseFileA \/ ParseFileB \/ CompareAnalyses

SpecParse == InitParse /\ [][NextParse]_vars

SpecCompare == InitCompare /\ [][NextCompare]_vars

-----------------------------------------------------------------------------
(* Properties of parseMapFile                                              *)

Parsed == pc # "uploaded"

LinesOfA == Split(contentA, "\n")

\* the lines of the first text that have the section shape
ShapedLines == {i \in 1..Len(LinesOfA) : SectionMatch(LinesOfA[i]).matched}

ZeroSizeLines == {i \in ShapedLines : ParseHex(SectionMatch(LinesOfA[i]).g3) = 0}

\* C1: every section of a parse result has size > 0, and the result has one
\* section for each line of section shape whose size field is not 0, so that
\* a line of section shape with size 0 contributes no section
C1_SizePositive ==
    Parsed =>
        /\ \A i \in 1..Len(analysisA.sections) : analysisA.sections[i].size > 0
        /\ Len(analysisA.sections) = Cardinality(ShapedLines \ ZeroSizeLines)

\* a text with a zero-size section line and another section line was parsed
C1_Witness ==
    /\ pc = "parsedA"
    /\ ZeroSizeLines # {}
    /\ Len(analysisA.sections) > 0

WithSize(sections, v) == SelectSeq(sections, LAMBDA s : s.size = v)

\* C2: the sections of a parse result are in descending order of size, and
\* the sections of one size are in the order in which their lines were scanned
C2_SortedStable ==
    Parsed =>
        LET sections == analysisA.sections
            scanned  == ScanLines(LinesOfA)
        IN  /\ \A i, j \in 1..Len(sections) :
                   i < j => sections[i].size >= sections[j].size
            /\ \A i \in 1..Len(scanned) :
                   WithSize(sections, scanned[i].size) = WithSize(scanned, scanned[i].size)

\* three sections were parsed, the largest scanned last and the two others
\* of one size and different
C2_Witness ==
    /\ pc = "parsedA"
    /\ Len(analysisA.sections) = 3
    /\ analysisA.sections[1].size > analysisA.sections[2].size
    /\ analysisA.sections[2].size = analysisA.sections[3].size
    /\ analysisA.sections[2] # analysisA.sections[3]
    /\ SectionMatch(LinesOfA[3]).g1 = analysisA.sections[1].name

-----------------------------------------------------------------------------
(* Properties of aggregateSections                                         *)

\* C4: the sizes of the groups add up to the sizes of the sections, in the
\* backend and in the frontend aggregator
C4_SizeSumPreserved ==
    /\ pc \in {"aggregatedBackend", "aggregated"} =>
           SumSize(aggBackend) = SumSize(analysisA.sections)
    /\ pc = "aggregated" =>
           SumSize(aggFrontend) = SumSize(analysisA.sections)

\* sections were merged into fewer groups by both aggregators
C4_Witness ==
    /\ pc = "aggregated"
    /\ Len(analysisA.sections) = 3
    /\ Len(aggBackend) < 3
    /\ Len(aggFrontend) < 3

Dots(name) == {i \in 1..Len(name) : name[i] = "."}

\* the name up to its second dot, the whole name when it has fewer than two
UpToSecondDot(name) ==
    IF Cardinality(Dots(name)) < 2 THEN name
    ELSE SubSeq(name, 1, Min(Dots(name) \ {Min(Dots(name))}) - 1)

NamesOf(seq) == {seq[i].name : i \in 1..Len(seq)}

\* groups is the grouping of sections by UpToSecondDot of the name
GroupedBySecondDot(groups, sections) ==
    /\ NamesOf(groups) = {UpToSecondDot(n) : n \in NamesOf(sections)}
    /\ \A i, j \in 1..Len(groups) : groups[i].name = groups[j].name => i = j
    /\ \A i \in 1..Len(groups) :
           groups[i].size =
               SumSize(SelectSeq(sections,
                                 LAMBDA s : UpToSecondDot(s.name) = groups[i].name))

\* C5 as amended: both aggregators group the sections by the name up to its
\* second dot (the first two pieces of name.split('.'), the first of which is
\* the empty piece before the leading dot): .text, .text.main and
\* .text.main.cold all fall into the one group named .text
C5_GroupByFirstComponent ==
    /\ pc \in {"aggregatedBackend", "aggregated"} =>
           GroupedBySecondDot(aggBackend, analysisA.sections)
    /\ pc = "aggregated" =>
           GroupedBySecondDot(aggFrontend, analysisA.sections)
    /\ UpToSecondDot(N_text) = N_text
    /\ UpToSecondDot(N_text_main) = N_text
    /\ UpToSecondDot(N_text_main_cold) = N_text

\* C5 as stated: .text.main and .text.main.cold are in a group named
\* .text.main, and .text is in a group named .text
C5_AsStated ==
    pc = "aggregated" =>
        \A n \in NamesOf(analysisA.sections) :
            /\ n \in {N_text_main, N_text_main_cold} =>
                   N_text_main \in NamesOf(aggBackend) \cap NamesOf(aggFrontend)
            /\ n = N_text => N_text \in NamesOf(aggBackend) \cap NamesOf(aggFrontend)

\* .text, .text.main and .text.main.cold were aggregated into one group
C5_Witness ==
    /\ pc = "aggregated"
    /\ NamesOf(analysisA.sections) = {N_text, N_text_main, N_text_main_cold}
    /\ NamesOf(aggBackend) = {N_text}
    /\ NamesOf(aggFrontend) = {N_text}

Contributing(groups, i, sections) ==
    Len(SelectSeq(sections, LAMBDA s : UpToSecondDot(s.name) = groups[i].name))

\* C6: in the output of both aggregators the subsections of a group is the
\* number of sections that contributed to it
C6_SubsectionsCount ==
    /\ pc \in {"aggregatedBackend", "aggregated"} =>
           \A i \in 1..Len(aggBackend) :
               aggBackend[i].subsections = Contributing(aggBackend, i, analysisA.sections)
    /\ pc = "aggregated" =>
           \A i \in 1..Len(aggFrontend) :
               aggFrontend[i].subsections = Contributing(aggFrontend, i, analysisA.sections)

\* C7: in the output of both aggregators every group has filePath null
C7_FilePathNull ==
    /\ pc \in {"aggregatedBackend", "aggregated"} =>
           \A i \in 1..Len(aggBackend) : aggBackend[i].filePath = Null
    /\ pc = "aggregated" =>
           \A i \in 1..Len(aggFrontend) : aggFrontend[i].filePath = Null

-----------------------------------------------------------------------------
(* Properties of compareAnalyses                                           *)

Compared == pc = "compared"

OptionsUsed == compareResult.metadata.optionsUsed

\* C8: comparing a parse result with itself, unchanged sections not
\* included, gives no section diff and no anomaly
C8_SelfCompareEmpty ==
    (Compared /\ analysisA = analysisB /\ ~OptionsUsed.includeUnchanged) =>
        /\ compareResult.sections = <<>>
        /\ compareResult.anomalies = <<>>

\* a parse result of two sections was compared with itself under a byte
\* threshold of 0
C8_Witness ==
    /\ Compared
    /\ analysisA = analysisB
    /\ Len(analysisA.sections) = 2
    /\ ~OptionsUsed.includeUnchanged
    /\ OptionsUsed.anomalyThresholdBytes = 0
    /\ compareResult.sections = <<>>

SizesIn(sections, name) ==
    {sections[i].size : i \in {j \in 1..Len(sections) : sections[j].name = name}}

\* the size that a section diff reports for one side: a size that the side
\* has under the name, and 0 when the side does not have the name
SideSize(size, sections, name) ==
    IF name \in NamesOf(sections) THEN size \in SizesIn(sections, name) ELSE size = 0

\* C9: every section diff has delta = sizeB - sizeA with 0 for an absent
\* side, status added exactly when sizeA = 0, removed exactly when sizeA > 0
\* and sizeB = 0, modified otherwise; and no section diff has delta 0 unless
\* unchanged sections are included
C9_DiffInvariant ==
    Compared =>
        \A i \in 1..Len(compareResult.sections) :
            LET d == compareResult.sections[i]
            IN  /\ SideSize(d.sizeA, analysisA.sections, d.name)
                /\ SideSize(d.sizeB, analysisB.sections, d.name)
                /\ d.delta = d.sizeB - d.sizeA
                /\ d.status \in {"added", "removed", "modified"}
                /\ d.status = "added" <=> d.sizeA = 0
                /\ d.status = "removed" <=> (d.sizeA > 0 /\ d.sizeB = 0)
                /\ ~OptionsUsed.includeUnchanged => d.delta # 0

StatusesOf(diffs) == {diffs[i].status : i \in 1..Len(diffs)}

\* a comparison gave an added, a removed and a modified section diff
C9_Witness ==
    /\ Compared
    /\ ~OptionsUsed.includeUnchanged
    /\ StatusesOf(compareResult.sections) = {"added", "removed", "modified"}

Named(seq, name) == SelectSeq(seq, LAMBDA x : x.name = name)

\* A has one section .text, of size 1000, and B has one, of size 1200; the
\* byte threshold is the default
Scenario3 ==
    /\ Compared
    /\ Len(Named(analysisA.sections, N_text)) = 1
    /\ Named(analysisA.sections, N_text)[1].size = 1000
    /\ Len(Named(analysisB.sections, N_text)) = 1
    /\ Named(analysisB.sections, N_text)[1].size = 1200
    /\ OptionsUsed.anomalyThresholdBytes = 1024

\* the one section diff of .text has delta 200, deltaPct 20.00 and status
\* modified
Scenario3Diff ==
    /\ Len(Named(compareResult.sections, N_text)) = 1
    /\ Named(compareResult.sections, N_text)[1].delta = 200
    /\ Named(compareResult.sections, N_text)[1].deltaPct = 2000
    /\ Named(compareResult.sections, N_text)[1].status = "modified"

TextFlagged ==
    \E i \in 1..Len(compareResult.anomalies) :
        /\ compareResult.anomalies[i].type = "section"
        /\ compareResult.anomalies[i].name = N_text

\* C10 as amended: in scenario 3 the section diff of .text has delta 200,
\* deltaPct 20.00 and status modified, and it is flagged as an anomaly exactly
\* when anomalyThresholdPct < 20: at anomalyThresholdPct = 20 it is not flagged
C10_FlaggedBelowTwenty ==
    Scenario3 =>
        /\ Scenario3Diff
        /\ TextFlagged <=> OptionsUsed.anomalyThresholdPct < 20

\* C10 as stated: the section is flagged for every anomalyThresholdPct <= 20
C10_AsStated ==
    (Scenario3 /\ OptionsUsed.anomalyThresholdPct <= 20) =>
        /\ Scenario3Diff
        /\ TextFlagged

\* scenario 3 was compared under a percentage threshold of 10 and flagged
C10_Witness ==
    /\ Scenario3
    /\ OptionsUsed.anomalyThresholdPct = 10
    /\ TextFlagged

\* ---------------------------------------------------------------------------
\* Top increases and top decreases of a comparison
\* ---------------------------------------------------------------------------

RangeOf(a) == {a[i] : i \in 1..Len(a)}

Increased == SelectSeq(compareResult.sections, LAMBDA s : s.delta > 0)

Decreased == SelectSeq(compareResult.sections, LAMBDA s : s.delta < 0)

Smaller(x, y) == IF x < y THEN x ELSE y

\* top holds min(topN, |among|) distinct diffs of among, and no diff of among
\* that was left out comes before (by the order rank, larger first) one taken
TopOf(top, among, topN, rank(_)) ==
    /\ Len(top) = Smaller(topN, Len(among))
    /\ RangeOf(top) \subseteq RangeOf(among)
    /\ Cardinality(RangeOf(top)) = Len(top)
    /\ \A i, j \in 1..Len(top) : i < j => rank(top[i]) >= rank(top[j])
    /\ \A s \in RangeOf(among) \ RangeOf(top) :
           \A i \in 1..Len(top) : rank(s) <= rank(top[i])

\* C11: topIncreases holds exactly the (at most topN) section diffs with the
\* largest positive delta in descending delta order, topDecreases holds exactly
\* the (at most topN) section diffs with the most negative delta, the largest
\* shrink first, and no section diff is in both lists
C11_TopLists ==
    Compared =>
        /\ TopOf(compareResult.topIncreases, Increased, OptionsUsed.topN,
                 LAMBDA s : s.delta)
        /\ TopOf(compareResult.topDecreases, Decreased, OptionsUsed.topN,
                 LAMBDA s : 0 - s.delta)
        /\ RangeOf(compareResult.topIncreases)
               \cap RangeOf(compareResult.topDecreases) = {}

\* a comparison with topN = 1 that cuts two increases down to the larger one
\* and lists a decrease as well
C11_Witness ==
    /\ Compared
    /\ OptionsUsed.topN = 1
    /\ Len(Increased) >= 2
    /\ Len(compareResult.topIncreases) = 1
    /\ Len(compareResult.topDecreases) = 1

\* ---------------------------------------------------------------------------
\* computeMemoryDiff: the diff of two analyses aligned by name and file
\* ---------------------------------------------------------------------------


\* The key of a section when sections are aligned by name alone
SectionKeyByName(s) == s.name \o <<":">>

\* `${s.name}:${s.filePath || ''}`
SectionKey(s) == s.name \o <<":">> \o (IF s.filePath # Null THEN s.filePath ELSE <<>>)

\* sections.forEach(s => map.set(key, s)); [...map.keys()], in insertion order
RECURSIVE KeysOf(_)
KeysOf(sections) ==
    IF sections = <<>> THEN <<>>
    ELSE LET front == SubSeq(sections, 1, Len(sections) - 1)
             key   == SectionKey(sections[Len(sections)])
         IN  IF \E i \in 1..Len(front) : SectionKey(front[i]) = key
             THEN KeysOf(front)
             ELSE Append(KeysOf(front), key)

\* map.get(key) is not undefined
HasKey(sections, key) == \E i \in 1..Len(sections) : SectionKey(sections[i]) = key

\* map.get(key) for a key of the map: the section set last for the key
GetKey(sections, key) ==
    sections[Max({i \in 1..Len(sections) : SectionKey(sections[i]) = key})]

\* the keys of v1 followed by all the keys of v2
AllKeysConcat(sectionsV1, sectionsV2) ==
    KeysOf(sectionsV1) \o KeysOf(sectionsV2)

\* new Set([...sectionsV1.keys(), ...sectionsV2.keys()]), in insertion order
AllKeys(sectionsV1, sectionsV2) ==
    KeysOf(sectionsV1) \o
    SelectSeq(KeysOf(sectionsV2), LAMBDA k : ~HasKey(sectionsV1, k))

\* parseInt(address, 16): an optional 0x and the hexadecimal digits after it
ParseInt16(address) ==
    LET from == IF StartsWith(address, HexPrefix) THEN 3 ELSE 1
    IN  ParseHex(Substring(address, from, RunEnd(address, from, HexDigit) - 1))

\* determineRegion(sectionName)
determineRegion(sectionName) ==
    IF StartsWith(sectionName, P_text) \/ StartsWith(sectionName, P_rodata)
    THEN "FLASH"
    ELSE IF StartsWith(sectionName, P_data) \/ StartsWith(sectionName, P_bss)
         THEN "RAM"
         ELSE "OTHER"

\* The unrounded sizeDiffPct as a fraction num / den with den > 0:
\* sizeV1 > 0 ? (sizeDiff / sizeV1) * 100 : (sizeV2 > 0 ? 100 : 0)
SizeDiffPct(sizeV1, sizeV2) ==
    IF sizeV1 > 0 THEN [num |-> (sizeV2 - sizeV1) * 100, den |-> sizeV1]
    ELSE IF sizeV2 > 0 THEN [num |-> 100, den |-> 1]
         ELSE [num |-> 0, den |-> 1]

\* Math.abs(pct) > threshold
AbsPctAbove(pct, threshold) == Abs(pct.num) > threshold * pct.den

\* parseFloat(pct.toFixed(2)), in hundredths of a percent
PctFixed2(pct) ==
    LET n == Abs(pct.num) * 100
        q == (2 * n + pct.den) \div (2 * pct.den)
    IN  IF pct.num < 0 THEN -q ELSE q

\* pct.toFixed(1), in tenths of a percent
PctFixed1(pct) ==
    LET n == Abs(pct.num) * 10
        q == (2 * n + pct.den) \div (2 * pct.den)
    IN  IF pct.num < 0 THEN -q ELSE q

\* determineSeverity with the new and removed sections rated as the others
determineSeverityByPct(status, sizeDiffPct, sizeDiffAbs) ==
    IF AbsPctAbove(sizeDiffPct, 50) THEN "critical"
    ELSE IF AbsPctAbove(sizeDiffPct, 25) THEN "high"
    ELSE IF AbsPctAbove(sizeDiffPct, 10) THEN "medium"
    ELSE "low"

\* determineSeverity(status, sizeDiffPct, sizeDiffAbs)
determineSeverity(status, sizeDiffPct, sizeDiffAbs) ==
    IF status = "added" \/ status = "removed"
    THEN (IF sizeDiffAbs > 10240 THEN "critical" ELSE "high")
    ELSE IF AbsPctAbove(sizeDiffPct, 50) THEN "critical"
    ELSE IF AbsPctAbove(sizeDiffPct, 25) THEN "high"
    ELSE IF AbsPctAbove(sizeDiffPct, 10) THEN "medium"
    ELSE "low"

SizeUnits == <<"B", "KB", "MB", "GB">>

RECURSIVE Pow(_, _)
Pow(k, i) == IF i = 0 THEN 1 ELSE k * Pow(k, i - 1)

\* formatBytes(bytes) for bytes >= 0: the number, in hundredths, and its unit
formatBytes(bytes) ==
    IF bytes = 0 THEN [hundredths |-> 0, unit |-> "B"]
    ELSE LET k == 1024
             i == Max({e \in 0..3 : Pow(k, e) <= bytes})
         IN  [hundredths |-> (2 * bytes * 100 + Pow(k, i)) \div (2 * Pow(k, i)),
              unit |-> SizeUnits[i + 1]]


\* lines 208-226: the reasons for which a diff entry is an anomaly
AnomalyReasons(d, sizeDiffPct, options) ==
    (IF d.status = "added" /\ d.sizeV2 > 1024
     THEN <<[text |-> "New section with", bytes |-> formatBytes(d.sizeV2)]>>
     ELSE <<>>)
    \o
    (IF d.status = "removed" /\ d.sizeV1 > 1024
     THEN <<[text |-> "Removed section had", bytes |-> formatBytes(d.sizeV1)]>>
     ELSE <<>>)
    \o
    (IF d.status = "growth"
        /\ sizeDiffPct.num > options.anomalyGrowthThreshold * sizeDiffPct.den
     THEN <<[text |-> "Grew by", pct |-> PctFixed1(sizeDiffPct),
             bytes |-> formatBytes(d.sizeDiff)]>>
     ELSE <<>>)
    \o
    (IF d.status = "shrink" /\ AbsPctAbove(sizeDiffPct, options.anomalyShrinkThreshold)
     THEN <<[text |-> "Shrunk by", pct |-> Abs(PctFixed1(sizeDiffPct)),
             bytes |-> formatBytes(Abs(d.sizeDiff))]>>
     ELSE <<>>)
    \o
    (IF d.addressShifted
     THEN <<[text |-> "Address shifted by", bytes |-> formatBytes(Abs(d.addressDiff))]>>
     ELSE <<>>)

\* lines 163-173 without the branch for a key that only v1 has
MemoryStatusNoRemoved(hasV1, hasV2, sizeDiff) ==
    IF ~hasV1 /\ hasV2 THEN "added"
    ELSE IF sizeDiff > 0 THEN "growth"
    ELSE IF sizeDiff < 0 THEN "shrink"
    ELSE "same"

\* lines 163-173: the status of a key
MemoryStatus(hasV1, hasV2, sizeDiff) ==
    IF ~hasV1 /\ hasV2 THEN "added"
    ELSE IF hasV1 /\ ~hasV2 THEN "removed"
    ELSE IF sizeDiff > 0 THEN "growth"
    ELSE IF sizeDiff < 0 THEN "shrink"
    ELSE "same"

\* AddressShifted with >= for >
AddressShiftedAtLeast(addressDiff, addressShiftThreshold) ==
    Abs(addressDiff) >= addressShiftThreshold

\* Math.abs(addressDiff) > addressShiftThreshold
AddressShifted(addressDiff, addressShiftThreshold) ==
    Abs(addressDiff) > addressShiftThreshold

\* lines 151-201: the diff entry of a key, and its unrounded percentage
DiffEntry(sectionsV1, sectionsV2, key, options) ==
    LET hasV1 == HasKey(sectionsV1, key)
        hasV2 == HasKey(sectionsV2, key)
        v1 == GetKey(sectionsV1, key)
        v2 == GetKey(sectionsV2, key)
        pieces == Split(key, ":")
        name == pieces[1]
        filePath == pieces[2]
        sizeV1 == IF hasV1 THEN v1.size ELSE 0
        sizeV2 == IF hasV2 THEN v2.size ELSE 0
        sizeDiff == sizeV2 - sizeV1
        addrV1 == IF hasV1 THEN v1.address ELSE Null
        addrV2 == IF hasV2 THEN v2.address ELSE Null
        both == addrV1 # Null /\ addrV2 # Null
        addressDiff == ParseInt16(addrV2) - ParseInt16(addrV1)
    IN  [name     |-> name,
         filePath |-> IF filePath # <<>> THEN filePath ELSE Null,
         sizeV1   |-> sizeV1,
         sizeV2   |-> sizeV2,
         sizeDiff |-> sizeDiff,
         sizeDiffPct |-> PctFixed2(SizeDiffPct(sizeV1, sizeV2)),
         addressV1 |-> addrV1,
         addressV2 |-> addrV2,
         addressDiff |-> IF both THEN addressDiff ELSE Null,
         addressShifted |-> both /\ AddressShifted(addressDiff,
                                                   options.addressShiftThreshold),
         status   |-> MemoryStatus(hasV1, hasV2, sizeDiff),
         region   |-> determineRegion(name)]

\* lines 228-234: the anomaly of a diff entry, or nothing
AnomalyOf(d, options) ==
    LET sizeDiffPct == SizeDiffPct(d.sizeV1, d.sizeV2)
        anomalyReasons == AnomalyReasons(d, sizeDiffPct, options)
    IN  IF Len(anomalyReasons) > 0
        THEN <<[name |-> d.name, filePath |-> d.filePath,
                sizeV1 |-> d.sizeV1, sizeV2 |-> d.sizeV2,
                sizeDiff |-> d.sizeDiff, sizeDiffPct |-> d.sizeDiffPct,
                addressV1 |-> d.addressV1, addressV2 |-> d.addressV2,
                addressDiff |-> d.addressDiff, addressShifted |-> d.addressShifted,
                status |-> d.status, region |-> d.region,
                reasons |-> anomalyReasons,
                severity |-> determineSeverity(d.status, sizeDiffPct, Abs(d.sizeDiff))]>>
        ELSE <<>>

\* the anomalies of the diff entries, in the order of the entries
RECURSIVE AnomaliesOf(_, _)
AnomaliesOf(diffResults, options) ==
    IF diffResults = <<>> THEN <<>>
    ELSE AnomalyOf(diffResults[1], options) \o AnomaliesOf(Tail(diffResults), options)

\* a severityOrder that ranks every severity alike
DiffSeverityOrderFlat(severity) == 0

\* severityOrder of the anomaly sort of computeMemoryDiff
DiffSeverityOrder(severity) ==
    CASE severity = "critical" -> 4 [] severity = "high" -> 3
      [] severity = "medium" -> 2 [] severity = "low" -> 1 [] OTHER -> 0

CountStatus(diffResults, status) ==
    Len(SelectSeq(diffResults, LAMBDA d : d.status = status))

\* computeMemoryDiff(analysisV1, analysisV2, options)
computeMemoryDiff(analysisV1, analysisV2, options) ==
    LET sectionsV1 == analysisV1.sections
        sectionsV2 == analysisV2.sections
        allKeys == AllKeys(sectionsV1, sectionsV2)
        diffResults ==
            [i \in 1..Len(allKeys) |->
                DiffEntry(sectionsV1, sectionsV2, allKeys[i], options)]
        anomalies == AnomaliesOf(diffResults, options)
        totalSizeV1 == SumSize(sectionsV1)
        totalSizeV2 == SumSize(sectionsV2)
        totalSizeDiff == totalSizeV2 - totalSizeV1
    IN  [summary |->
            [totalSectionsV1 |-> Len(sectionsV1),
             totalSectionsV2 |-> Len(sectionsV2),
             sectionsAdded |-> CountStatus(diffResults, "added"),
             sectionsRemoved |-> CountStatus(diffResults, "removed"),
             sectionsGrowth |-> CountStatus(diffResults, "growth"),
             sectionsShrink |-> CountStatus(diffResults, "shrink"),
             sectionsUnchanged |-> CountStatus(diffResults, "same"),
             totalSizeV1 |-> totalSizeV1,
             totalSizeV2 |-> totalSizeV2,
             totalSizeDiff |-> totalSizeDiff,
             anomalyCount |-> Len(anomalies),
             totalSizeDiffPct |-> IF totalSizeV1 > 0
                                  THEN ToFixed2Pct(totalSizeDiff, totalSizeV1) ELSE 0],
         diff |-> StableSortDesc(diffResults,
                     [i \in 1..Len(diffResults) |-> <<Abs(diffResults[i].sizeDiff)>>]),
         anomalies |-> StableSortDesc(anomalies,
                     [i \in 1..Len(anomalies) |->
                         <<DiffSeverityOrder(anomalies[i].severity)>>]),
         metadata |-> [options |-> options]]

\* ---------------------------------------------------------------------------
\* The memory diff of two uploaded files, and of the same files exchanged
\* ---------------------------------------------------------------------------

MaxDiffLines == 2   \* lines of each of the two texts that are diffed

DiffLines ==
    { SectionLine(N_text, <<"0","8","0","0">>, <<"3","e","8">>, SP \o F_main_o),
      SectionLine(N_text, <<"1","8","0","0">>, <<"4","b","0">>, SP \o F_main_o),
      SectionLine(N_text, <<"0","8","0","0">>, <<"4","0","0">>, SP \o F_util_o),
      SectionLine(N_bss_x, <<"2","0","0","0">>, <<"7","d","0">>, <<>>) }

GrowthThresholds == {10, 20}
ShrinkThresholds == {10, 20}
AddressShiftThresholds == {256, 4096}

DiffOptions ==
    [anomalyGrowthThreshold : GrowthThresholds,
     anomalyShrinkThreshold : ShrinkThresholds,
     addressShiftThreshold  : AddressShiftThresholds]

\* two map files are given to the parser and diffed
InitDiff ==
    /\ contentA \in Texts(DiffLines, MaxDiffLines)
    /\ contentB \in Texts(DiffLines, MaxDiffLines)
    /\ InitResults

\* the diff of fileV1 = A and fileV2 = B
ComputeMemoryDiff ==
    /\ pc = "parsedB"
    /\ \E options \in DiffOptions :
          diffResult' = computeMemoryDiff(analysisA, analysisB, options)
    /\ pc' = "diffed"
    /\ UNCHANGED <<contentA, contentB, analysisA, analysisB, aggBackend, aggFrontend,
                   compareResult, diffSwapped, storeVars>>

\* the diff of the same files given the other way round, fileV1 = B and
\* fileV2 = A, under the same options
ComputeMemoryDiffSwapped ==
    /\ pc = "diffed"
    /\ diffSwapped' = computeMemoryDiff(analysisB, analysisA, diffResult.metadata.options)
    /\ pc' = "diffedBoth"
    /\ UNCHANGED <<contentA, contentB, analysisA, analysisB, aggBackend, aggFrontend,
                   compareResult, diffResult, storeVars>>

NextDiff == ParseFileA \/ ParseFileB \/ ComputeMemoryDiff \/ ComputeMemoryDiffSwapped

SpecDiff == InitDiff /\ [][NextDiff]_vars

Diffed == pc \in {"diffed", "diffedBoth"}

DiffedBoth == pc = "diffedBoth"

\* the entries of a diff list that are reported under a name and a file
EntriesOf(diff, name, filePath) ==
    {i \in 1..Len(diff) : diff[i].name = name /\ diff[i].filePath = filePath}

\* f is e with the two versions exchanged
Exchanged(e, f) ==
    /\ f.sizeV1 = e.sizeV2
    /\ f.sizeV2 = e.sizeV1
    /\ f.sizeDiff = 0 - e.sizeDiff
    /\ (e.status = "added") = (f.status = "removed")
    /\ (e.status = "removed") = (f.status = "added")

\* C12: computeMemoryDiff(B, A) is computeMemoryDiff(A, B) with the versions
\* exchanged: the two diffs have the same keys, and for every key the entry
\* of one has the sizeV1 and sizeV2 of the other swapped, its sizeDiff
\* negated, and 'added' where the other has 'removed' and the reverse
C12_SwapSymmetry ==
    DiffedBoth =>
        /\ Len(diffSwapped.diff) = Len(diffResult.diff)
        /\ \A i \in 1..Len(diffResult.diff) :
              LET e == diffResult.diff[i]
                  there == EntriesOf(diffSwapped.diff, e.name, e.filePath)
              IN  /\ EntriesOf(diffResult.diff, e.name, e.filePath) = {i}
                  /\ Cardinality(there) = 1
                  /\ \A j \in there : Exchanged(e, diffSwapped.diff[j])

\* both diffs were made of files where one key was added, one removed and
\* one grew
C12_Witness ==
    /\ DiffedBoth
    /\ diffResult.summary.sectionsAdded = 1
    /\ diffResult.summary.sectionsRemoved = 1
    /\ diffResult.summary.sectionsGrowth = 1
    /\ diffSwapped.summary.sectionsShrink = 1

\* a section of the name and file of s is among the sections
Holds(sections, s) ==
    \E i \in 1..Len(sections) :
        sections[i].name = s.name /\ sections[i].filePath = s.filePath

\* the section taken for the name and file of s: the last one parsed
LastOf(sections, s) ==
    sections[Max({i \in 1..Len(sections) :
                     sections[i].name = s.name /\ sections[i].filePath = s.filePath})]

\* a section that only v1 has and a section that only v2 has, of one name and
\* of different files
Moved(a, b) ==
    /\ a.name = b.name
    /\ a.filePath # b.filePath
    /\ ~Holds(analysisB.sections, a)
    /\ ~Holds(analysisA.sections, b)

MovedPairs ==
    {<<i, j>> \in (1..Len(analysisA.sections)) \X (1..Len(analysisB.sections)) :
        Moved(analysisA.sections[i], analysisB.sections[j])}

\* C13: the diff is aligned by (name, filePath): a section of one name that
\* v1 has under one file and v2 under another gives two entries, one
\* 'removed' for the v1 file and one 'added' for the v2 file, and no single
\* entry of status growth, shrink or same
C13_AlignedByNameAndFile ==
    Diffed =>
        \A p \in MovedPairs :
            LET a == analysisA.sections[p[1]]
                b == analysisB.sections[p[2]]
                ofA == EntriesOf(diffResult.diff, a.name, a.filePath)
                ofB == EntriesOf(diffResult.diff, b.name, b.filePath)
            IN  /\ Cardinality(ofA) = 1
                /\ Cardinality(ofB) = 1
                /\ \A i \in ofA :
                      /\ diffResult.diff[i].status = "removed"
                      /\ diffResult.diff[i].sizeV1 = LastOf(analysisA.sections, a).size
                      /\ diffResult.diff[i].sizeV2 = 0
                /\ \A j \in ofB :
                      /\ diffResult.diff[j].status = "added"
                      /\ diffResult.diff[j].sizeV1 = 0
                      /\ diffResult.diff[j].sizeV2 = LastOf(analysisB.sections, b).size

\* .text of main.o in v1 and .text of util.o in v2 were diffed
C13_Witness ==
    /\ Diffed
    /\ MovedPairs # {}
    /\ \E i, j \in 1..Len(diffResult.diff) :
          /\ diffResult.diff[i].name = N_text
          /\ diffResult.diff[i].filePath = F_main_o
          /\ diffResult.diff[i].status = "removed"
          /\ diffResult.diff[j].name = N_text
          /\ diffResult.diff[j].filePath = F_util_o
          /\ diffResult.diff[j].status = "added"

\* the anomalies reported under the name and file of a diff entry
AnomaliesFor(e) ==
    {i \in 1..Len(diffResult.anomalies) :
        /\ diffResult.anomalies[i].name = e.name
        /\ diffResult.anomalies[i].filePath = e.filePath}

HasReason(anomaly, text) ==
    \E k \in 1..Len(anomaly.reasons) : anomaly.reasons[k].text = text

\* the diff entry is an anomaly, and one with a reason of the given text
ListedWith(e, text) ==
    /\ AnomaliesFor(e) # {}
    /\ \A i \in AnomaliesFor(e) :
          /\ HasReason(diffResult.anomalies[i], text)
          /\ diffResult.anomalies[i].status = e.status

\* the entries of the sections that only the one version has are of the status
OnlyIn(sections, others, status) ==
    \A i \in 1..Len(sections) :
        ~Holds(others, sections[i]) =>
            \A j \in EntriesOf(diffResult.diff, sections[i].name, sections[i].filePath) :
                diffResult.diff[j].status = status

\* .bss.x, of size 2000, is in v2 alone
Scenario4 ==
    /\ Diffed
    /\ ~\E i \in 1..Len(analysisA.sections) : analysisA.sections[i].name = N_bss_x
    /\ \E i \in 1..Len(analysisB.sections) :
          /\ analysisB.sections[i].name = N_bss_x
          /\ analysisB.sections[i].size = 2000

\* C14: under every option set, an entry that only v2 has is 'added' and is
\* an anomaly, with a "New section" reason, exactly when its size is above
\* 1024, an entry that only v1 has is 'removed' and is an anomaly, with a
\* "Removed section" reason, exactly when its v1 size is above 1024, and
\* .bss.x of size 2000 in v2 alone is 'added', of region RAM and severity high
C14_NewAndRemovedSections ==
    Diffed =>
        /\ OnlyIn(analysisB.sections, analysisA.sections, "added")
        /\ OnlyIn(analysisA.sections, analysisB.sections, "removed")
        /\ \A i \in 1..Len(diffResult.diff) :
              LET e == diffResult.diff[i]
              IN  /\ e.status = "added" =>
                        /\ (AnomaliesFor(e) # {}) = (e.sizeV2 > 1024)
                        /\ e.sizeV2 > 1024 => ListedWith(e, "New section with")
                  /\ e.status = "removed" =>
                        /\ (AnomaliesFor(e) # {}) = (e.sizeV1 > 1024)
                        /\ e.sizeV1 > 1024 => ListedWith(e, "Removed section had")
        /\ Scenario4 =>
              \A i \in EntriesOf(diffResult.diff, N_bss_x, Null) :
                  /\ diffResult.diff[i].status = "added"
                  /\ diffResult.diff[i].region = "RAM"
                  /\ \A j \in AnomaliesFor(diffResult.diff[i]) :
                        diffResult.anomalies[j].severity = "high"

\* .bss.x of size 2000 was added and is an anomaly of severity high, and a
\* section of size 1024 was added and is no anomaly
C14_Witness ==
    /\ Scenario4
    /\ \E i \in 1..Len(diffResult.anomalies) :
          /\ diffResult.anomalies[i].name = N_bss_x
          /\ diffResult.anomalies[i].status = "added"
          /\ diffResult.anomalies[i].severity = "high"
          /\ HasReason(diffResult.anomalies[i], "New section with")
    /\ \E i \in 1..Len(diffResult.diff) :
          /\ diffResult.diff[i].status = "added"
          /\ diffResult.diff[i].sizeV2 = 1024
          /\ AnomaliesFor(diffResult.diff[i]) = {}

\* ---------------------------------------------------------------------------
\* compareStorage.js: the store of comparison results, with expiry
\* ---------------------------------------------------------------------------

\* DEFAULT_TTL, in milliseconds
DEFAULT_TTL == 24 * 60 * 60 * 1000

\* new Date().toISOString().split('T')[0].replace(/-/g, ''): the UTC date of
\* a time, held as the number of the day since the epoch
IsoDate(t) == t \div (24 * 60 * 60 * 1000)

\* crypto.randomBytes(4).toString('hex'): two of the 2^32 values
RandomHex == {"00000000", "ffffffff"}

\* generateCompareId(): `cmp_${timestamp}_${random}` at time t
generateCompareId(t, random) == <<"cmp", IsoDate(t), random>>

\* store with the entries of the ids kept
Keep(store, ids) == [id \in ids |-> store[id]]

\* compareStore.set(id, entry)
MapSet(store, compareId, entry) ==
    [id \in DOMAIN store \cup {compareId} |->
        IF id = compareId THEN entry ELSE store[id]]

\* compareStore.delete(id)
MapDelete(store, compareId) == Keep(store, DOMAIN store \ {compareId})

\* a cleanupExpired that removes nothing
cleanupExpiredNone(store, t) == store

\* a cleanupExpired that also removes the entries that expire at time t
cleanupExpiredInclusive(store, t) ==
    [id \in {k \in DOMAIN store : t < store[k].expiresAt} |-> store[id]]

\* cleanupExpired() at time t
cleanupExpired(store, t) ==
    Keep(store, {id \in DOMAIN store : ~(t > store[id].expiresAt)})

\* storeComparison without the call of cleanupExpired
storeComparisonNoSweep(store, result, ttl, t, random) ==
    LET compareId == generateCompareId(t, random)
        expiresAt == t + ttl
    IN  [store |-> MapSet(store, compareId,
                          [result |-> result, expiresAt |-> expiresAt,
                           createdAt |-> t]),
         compareId |-> compareId]

\* storeComparison(result, ttl) at time t, with the random bytes drawn
storeComparison(store, result, ttl, t, random) ==
    LET compareId == generateCompareId(t, random)
        expiresAt == t + ttl
    IN  [store |-> cleanupExpired(
                       MapSet(store, compareId,
                              [result |-> result, expiresAt |-> expiresAt,
                               createdAt |-> t]), t),
         compareId |-> compareId]

\* getComparison that leaves an expired entry in the store
getComparisonNoEvict(store, compareId, t) ==
    IF compareId \notin DOMAIN store THEN [store |-> store, result |-> Null]
    ELSE IF t > store[compareId].expiresAt
         THEN [store |-> store, result |-> Null]
         ELSE [store |-> store, result |-> store[compareId].result]

\* getComparison without the test of expiry
getComparisonNoExpiry(store, compareId, t) ==
    IF compareId \notin DOMAIN store THEN [store |-> store, result |-> Null]
    ELSE [store |-> store, result |-> store[compareId].result]

\* getComparison(compareId) at time t
getComparison(store, compareId, t) ==
    IF compareId \notin DOMAIN store THEN [store |-> store, result |-> Null]
    ELSE IF t > store[compareId].expiresAt
         THEN [store |-> MapDelete(store, compareId), result |-> Null]
         ELSE [store |-> store, result |-> store[compareId].result]

\* deleteComparison that answers true whatever the store holds
deleteComparisonAlwaysTrue(store, compareId) ==
    [store |-> MapDelete(store, compareId), deleted |-> TRUE]

\* deleteComparison(compareId)
deleteComparison(store, compareId) ==
    [store |-> MapDelete(store, compareId), deleted |-> compareId \in DOMAIN store]

\* getStats() at time t
getStats(store, t) ==
    LET swept == cleanupExpired(store, t)
    IN  [store |-> swept,
         stats |-> [totalStored |-> Cardinality(DOMAIN swept),
                    entries |-> {[compareId |-> id,
                                  createdAt |-> swept[id].createdAt,
                                  expiresAt |-> swept[id].expiresAt,
                                  timeRemaining |-> swept[id].expiresAt - t] :
                                 id \in DOMAIN swept}]]

\* ---------------------------------------------------------------------------
\* The calls made on the store while the clock advances
\* ---------------------------------------------------------------------------

MaxTicks == 3   \* advances of the clock
MaxPuts == 2    \* storeComparison calls that the history keeps

\* the clock advances by half a day
ClockStep == DEFAULT_TTL \div 2

\* the results that are stored: two different objects
Results == {<<"result 1">>, <<"result 2">>}

Times == {k * ClockStep : k \in 0..MaxTicks}

\* the ids that a call can ask for: those that can be generated at some time
Ids == {generateCompareId(t, random) : t \in Times, random \in RandomHex}

InitCache ==
    /\ contentA = <<>>
    /\ contentB = <<>>
    /\ InitResults

Removed(store, after) == DOMAIN store \ DOMAIN after

\* storeComparison(result): a result is stored under the default TTL
StoreComparison(result, random) ==
    /\ Cardinality(puts) < MaxPuts
    /\ LET call == storeComparison(compareStore, result, DEFAULT_TTL, now, random)
       IN  /\ compareStore' = call.store
           /\ lastCall' = [op |-> "store", id |-> call.compareId, ret |-> call.compareId,
                           evicted |-> Removed(compareStore, call.store)]
           /\ puts' = puts \cup {[id |-> call.compareId, result |-> result,
                                  expiresAt |-> now + DEFAULT_TTL]}
    /\ UNCHANGED <<contentA, contentB, analysisA, analysisB, aggBackend, aggFrontend,
                   compareResult, pc, diffVars, now>>

\* getComparison(compareId)
GetComparison(compareId) ==
    /\ LET call == getComparison(compareStore, compareId, now)
       IN  /\ compareStore' = call.store
           /\ lastCall' = [op |-> "get", id |-> compareId, ret |-> call.result,
                           evicted |-> Removed(compareStore, call.store)]
    /\ UNCHANGED <<contentA, contentB, analysisA, analysisB, aggBackend, aggFrontend,
                   compareResult, pc, diffVars, now, puts>>

\* deleteComparison(compareId)
DeleteComparison(compareId) ==
    /\ LET call == deleteComparison(compareStore, compareId)
       IN  /\ compareStore' = call.store
           /\ lastCall' = [op |-> "delete", id |-> compareId, ret |-> call.deleted,
                           evicted |-> Removed(compareStore, call.store)]
    /\ puts' = {p \in puts : p.id # compareId}
    /\ UNCHANGED <<contentA, contentB, analysisA, analysisB, aggBackend, aggFrontend,
                   compareResult, pc, diffVars, now>>

\* getStats()
GetStats ==
    /\ LET call == getStats(compareStore, now)
       IN  /\ compareStore' = call.store
           /\ lastCall' = [op |-> "stats", id |-> <<>>, ret |-> call.stats,
                           evicted |-> Removed(compareStore, call.store)]
    /\ UNCHANGED <<contentA, contentB, analysisA, analysisB, aggBackend, aggFrontend,
                   compareResult, pc, diffVars, now, puts>>

\* setInterval(cleanupExpired, 60 * 60 * 1000): the timer fires
CleanupTimer ==
    /\ compareStore' = cleanupExpired(compareStore, now)
    /\ UNCHANGED <<contentA, contentB, analysisA, analysisB, aggBackend, aggFrontend,
                   compareResult, pc, diffVars, now, lastCall, puts>>

\* time passes
Tick ==
    /\ now < MaxTicks * ClockStep
    /\ now' = now + ClockStep
    /\ UNCHANGED <<contentA, contentB, analysisA, analysisB, aggBackend, aggFrontend,
                   compareResult, pc, diffVars, compareStore, lastCall, puts>>

NextCache ==
    \/ \E result \in Results, random \in RandomHex :
           StoreComparison(result, random)
    \/ \E compareId \in Ids : GetComparison(compareId)
    \/ \E compareId \in Ids : DeleteComparison(compareId)
    \/ GetStats
    \/ CleanupTimer
    \/ Tick

SpecCache == InitCache /\ [][NextCache]_vars

\* what getComparison(compareId) would return now
Got(compareId) == getComparison(compareStore, compareId, now).result

\* C15 as stated: the id that storeComparison(r) returned gives back exactly r
\* for as long as the entry has not expired and no deleteComparison of the id
\* was made, whatever other calls were made since, and gives null once
\* expiresAt is in the past
C15_GetReturnsStored ==
    \A p \in puts :
        Got(p.id) = IF now > p.expiresAt THEN Null ELSE p.result

\* C16: getComparison on an entry that has expired and was not swept yet
\* returns null and removes that entry, and that entry alone, from the store,
\* so getStats does not count or list it afterwards
C16_EvictOnRead ==
    [][\A compareId \in Ids :
          (/\ GetComparison(compareId)
           /\ compareId \in DOMAIN compareStore
           /\ now > compareStore[compareId].expiresAt)
          => /\ lastCall'.ret = Null
             /\ compareStore' = Keep(compareStore, DOMAIN compareStore \ {compareId})
             /\ \A e \in getStats(compareStore', now').stats.entries :
                   e.compareId # compareId
             /\ getStats(compareStore', now').stats.totalStored
                    <= Cardinality(DOMAIN compareStore) - 1]_vars

\* a getComparison found its entry expired, removed it and returned null
C16_Witness ==
    /\ lastCall.op = "get"
    /\ lastCall.evicted = {lastCall.id}
    /\ lastCall.ret = Null
    /\ lastCall.id \notin DOMAIN compareStore

\* a storeComparison returned the id, no deleteComparison of the id was made
\* since, and the entry has not expired
Live(compareId) == \E p \in puts : p.id = compareId /\ ~(now > p.expiresAt)

\* C17: getComparison(id) returns a result only if the id was returned by an
\* earlier storeComparison, was not deleted since and has not expired; in
\* every other case it returns null
C17_GetOnlyLive ==
    [][\A compareId \in Ids :
          GetComparison(compareId) =>
              /\ lastCall'.ret # Null => Live(compareId)
              /\ ~Live(compareId) => lastCall'.ret = Null
              /\ lastCall'.ret # Null =>
                    \E p \in puts : p.id = compareId /\ p.result = lastCall'.ret]_vars

\* a getComparison returned a stored result, with another stored entry expired
C17_Witness ==
    /\ lastCall.op = "get"
    /\ lastCall.ret \in Results
    /\ \E p \in puts : p.id # lastCall.id /\ now > p.expiresAt

\* C18: every storeComparison sweeps: when it returns, the store holds no
\* entry whose expiresAt is earlier than the current time
C18_PutSweeps ==
    [][\A result \in Results, random \in RandomHex :
          StoreComparison(result, random) =>
              \A id \in DOMAIN compareStore' : ~(compareStore'[id].expiresAt < now')]_vars

\* a storeComparison removed an expired entry and kept its own
C18_Witness ==
    /\ lastCall.op = "store"
    /\ lastCall.evicted # {}
    /\ lastCall.id \in DOMAIN compareStore

\* C19 as stated: every storeComparison returns an id that no entry of the
\* store has, so that it replaces no entry stored earlier
C19_FreshId ==
    [][\A result \in Results, random \in RandomHex :
          StoreComparison(result, random) =>
              /\ lastCall'.ret \notin DOMAIN compareStore
              /\ \A id \in DOMAIN compareStore \cap DOMAIN compareStore' :
                    compareStore'[id] = compareStore[id]]_vars

\* C20: deleteComparison(id) returns true exactly when the store has an entry
\* of the id, removes that entry and leaves every other entry as it was, and
\* getComparison(id) returns null after it
C20_DeleteOne ==
    [][\A compareId \in Ids :
          DeleteComparison(compareId) =>
              /\ lastCall'.ret = (compareId \in DOMAIN compareStore)
              /\ compareStore' = Keep(compareStore, DOMAIN compareStore \ {compareId})
              /\ getComparison(compareStore', compareId, now').result = Null]_vars

\* a deleteComparison returned true, removed its entry and left another one
C20_Witness ==
    /\ lastCall.op = "delete"
    /\ lastCall.ret = TRUE
    /\ lastCall.evicted = {lastCall.id}
    /\ DOMAIN compareStore # {}

\* ---------------------------------------------------------------------------
\* The comparison of files of many small sections, with and without a file
\* ---------------------------------------------------------------------------

MaxGroupLines == 6   \* sections of the second file

DigitChars == <<"1","2","3","4","5","6","7","8","9">>

\* .bss.1, .bss.2, ...
N_bss(i) == P_bss \o <<".", DigitChars[i]>>

\* the line of section i, of the given size, with or without a file
GroupLine(i, size, file) ==
    SectionLine(N_bss(i), <<"2","0","0", DigitChars[i]>>, size,
                IF file = <<>> THEN <<>> ELSE SP \o file)

\* a text of the sections 1..n, each of size 16 and of one of the files
GroupTextsB ==
    { Join([i \in 1..MaxGroupLines |-> GroupLine(i, <<"1","0">>, files[i])], "\n") :
        files \in [1..MaxGroupLines -> {<<>>, F_main_o}] }

\* no section, or the sections 1..n, each of size 8 and of no file
GroupTextsA ==
    { <<>>,
      Join([i \in 1..MaxGroupLines |-> GroupLine(i, <<"8">>, <<>>)], "\n") }

InitGroups ==
    /\ contentA \in GroupTextsA
    /\ contentB \in GroupTextsB
    /\ InitResults

NextGroups == ParseFileA \/ ParseFileB \/ CompareAnalyses

SpecGroups == InitGroups /\ [][NextGroups]_vars

\* the file that a section diff is grouped under
GroupFile(d) == IF d.file # Null THEN d.file ELSE UnknownFile

\* the section diffs of a file group
MembersOf(group) ==
    SelectSeq(compareResult.sections, LAMBDA d : GroupFile(d) = group.file)

GroupsOf(d) ==
    {g \in 1..Len(compareResult.fileGroups) :
        compareResult.fileGroups[g].file = GroupFile(d)}

SumSizeA(diffs) == SumOf([i \in 1..Len(diffs) |-> diffs[i].sizeA])

SumSizeB(diffs) == SumOf([i \in 1..Len(diffs) |-> diffs[i].sizeB])

\* C21: the file groups are keyed by the file of the section diffs, "unknown"
\* for a diff without a file: every section diff is in exactly one group, no
\* group is empty, the sizeA, sizeB and delta of a group are the sums over its
\* member diffs, its sectionCount is the number of its members, and the group
\* deltas add up to the sum of all section deltas
C21_FileGroupsRollUp ==
    Compared =>
        /\ \A i \in 1..Len(compareResult.sections) :
              Cardinality(GroupsOf(compareResult.sections[i])) = 1
        /\ \A g \in 1..Len(compareResult.fileGroups) :
              LET group == compareResult.fileGroups[g]
                  members == MembersOf(group)
              IN  /\ Len(members) > 0
                  /\ group.sizeA = SumSizeA(members)
                  /\ group.sizeB = SumSizeB(members)
                  /\ group.delta = SumDelta(members)
                  /\ group.sectionCount = Len(members)
                  /\ Len(group.sections) = Len(members)
                  /\ \A k \in 1..Len(members) :
                        \E n \in 1..Len(group.sections) :
                            group.sections[n] = members[k].name
        /\ SumDelta(compareResult.fileGroups) = SumDelta(compareResult.sections)

\* a comparison with a group of main.o and an "unknown" group, of several
\* section diffs each
C21_Witness ==
    /\ Compared
    /\ \E g, h \in 1..Len(compareResult.fileGroups) :
          /\ compareResult.fileGroups[g].file = F_main_o
          /\ compareResult.fileGroups[g].sectionCount >= 2
          /\ compareResult.fileGroups[h].file = UnknownFile
          /\ compareResult.fileGroups[h].sectionCount >= 2

\* the anomalies of type 'section' that are reported for a section diff
SectionAnomaliesOf(d) ==
    SelectSeq(compareResult.anomalies,
              LAMBDA a : a.type = "section" /\ a.name = d.name)

\* the kinds of the conditions of a section anomaly that hold of a diff
ConditionsOf(d, thresholdPct, thresholdBytes) ==
    {k \in {"pct", "bytes", "new", "removed"} :
        \/ k = "pct" /\ Abs(d.deltaPct) > thresholdPct * 100
        \/ k = "bytes" /\ Abs(d.delta) > thresholdBytes
        \/ k = "new" /\ d.status = "added" /\ d.sizeB > 2 * thresholdBytes
        \/ k = "removed" /\ d.status = "removed" /\ d.sizeA > 2 * thresholdBytes}

\* C22: a section diff has a 'section' anomaly exactly when |deltaPct| >
\* thresholdPct, or |delta| > thresholdBytes, or it is 'added' with sizeB >
\* 2 x thresholdBytes, or it is 'removed' with sizeA > 2 x thresholdBytes; the
\* anomaly has one reason for each of these conditions that holds, and its
\* severity is 'high' when |delta| > 10 x thresholdBytes and 'medium' otherwise
C22_SectionAnomalies ==
    Compared =>
        \A i \in 1..Len(compareResult.sections) :
            LET d == compareResult.sections[i]
                conditions == ConditionsOf(d, OptionsUsed.anomalyThresholdPct,
                                           OptionsUsed.anomalyThresholdBytes)
                found == SectionAnomaliesOf(d)
            IN  /\ Len(found) = IF conditions = {} THEN 0 ELSE 1
                /\ \A n \in 1..Len(found) :
                      /\ Len(found[n].reasons) = Cardinality(conditions)
                      /\ {found[n].reasons[k].kind : k \in 1..Len(found[n].reasons)}
                             = conditions
                      /\ found[n].severity =
                             IF Abs(d.delta) > 10 * OptionsUsed.anomalyThresholdBytes
                             THEN "high" ELSE "medium"
                      /\ found[n].delta = d.delta

\* one section diff has an anomaly of three reasons and severity high, one has
\* an anomaly of severity medium, and one has none
C22_Witness ==
    /\ Compared
    /\ \E i, j \in 1..Len(compareResult.anomalies) :
          /\ compareResult.anomalies[i].type = "section"
          /\ Len(compareResult.anomalies[i].reasons) = 3
          /\ compareResult.anomalies[i].severity = "high"
          /\ compareResult.anomalies[j].type = "section"
          /\ compareResult.anomalies[j].severity = "medium"
    /\ \E i \in 1..Len(compareResult.sections) :
          SectionAnomaliesOf(compareResult.sections[i]) = <<>>

\* the anomalies of type 'file' that are reported for a file group
FileAnomaliesOf(group) ==
    SelectSeq(compareResult.anomalies,
              LAMBDA a : a.type = "file" /\ a.name = group.file)

\* the member diffs of a group with 0 < delta < thresholdBytes
SmallIncreasesOf(group, thresholdBytes) ==
    SelectSeq(MembersOf(group), LAMBDA d : d.delta > 0 /\ d.delta < thresholdBytes)

HasKind(anomaly, kind) ==
    \E k \in 1..Len(anomaly.reasons) : anomaly.reasons[k].kind = kind

\* the file anomaly that a group is to have
FileAnomalyAsStated(group, thresholdBytes) ==
    LET found == FileAnomaliesOf(group)
        small == Len(SmallIncreasesOf(group, thresholdBytes)) > 5
        total == Abs(group.delta) > 5 * thresholdBytes
    IN  /\ (small \/ total) => Len(found) = 1
        /\ \A n \in 1..Len(found) :
              /\ small => HasKind(found[n], "small")
              /\ total => HasKind(found[n], "total")
              /\ found[n].severity =
                     IF Abs(group.delta) > 20 * thresholdBytes THEN "high" ELSE "low"

\* C23: every file group, the "unknown" group of the sections without a file
\* included, has a 'file' anomaly with a small-increases reason whenever more
\* than 5 of its section diffs have 0 < delta < thresholdBytes and with a
\* total-change reason whenever |group.delta| > 5 x thresholdBytes, of severity
\* 'high' when |group.delta| > 20 x thresholdBytes and 'low' otherwise
C23_FileAnomalies ==
    Compared =>
        \A g \in 1..Len(compareResult.fileGroups) :
            FileAnomalyAsStated(compareResult.fileGroups[g],
                                OptionsUsed.anomalyThresholdBytes)

\* the number that the hexadecimal address 0x... of a section stands for
HexValue(address) == ParseHex(SubSeq(address, 3, Len(address)))

\* the sections of an analysis that a diff entry is reported for
SectionsOf(sections, e) ==
    SelectSeq(sections, LAMBDA s : s.name = e.name /\ s.filePath = e.filePath)

\* C24: a diff entry has addressDiff and addressShifted derived only when its
\* key has an address in both versions: then addressDiff is address(v2) -
\* address(v1) as hexadecimal integers and addressShifted holds exactly when
\* |addressDiff| > addressShiftThreshold; an 'added' or 'removed' entry has
\* addressDiff null and addressShifted false; and an entry has an
\* address-shift anomaly reason exactly when addressShifted is true
C24_AddressShift ==
    Diffed =>
        \A i \in 1..Len(diffResult.diff) :
            LET e == diffResult.diff[i]
                inV1 == SectionsOf(analysisA.sections, e)
                inV2 == SectionsOf(analysisB.sections, e)
                shift == HexValue(inV2[Len(inV2)].address)
                             - HexValue(inV1[Len(inV1)].address)
            IN  /\ (e.status \in {"added", "removed"}) = (inV1 = <<>> \/ inV2 = <<>>)
                /\ IF inV1 # <<>> /\ inV2 # <<>>
                   THEN /\ e.addressDiff = shift
                        /\ e.addressShifted =
                               (Abs(shift) > diffResult.metadata.options.addressShiftThreshold)
                   ELSE /\ e.addressDiff = Null
                        /\ e.addressShifted = FALSE
                /\ e.addressShifted =
                       \E j \in AnomaliesFor(e) :
                           HasReason(diffResult.anomalies[j], "Address shifted by")

\* an entry moved by exactly the threshold of 4096 and is not flagged, and
\* another entry was added
C24_Witness ==
    /\ Diffed
    /\ diffResult.metadata.options.addressShiftThreshold = 4096
    /\ \E i, j \in 1..Len(diffResult.diff) :
          /\ diffResult.diff[i].addressV1 # Null
          /\ diffResult.diff[i].addressV2 # Null
          /\ diffResult.diff[i].addressDiff = 4096
          /\ ~diffResult.diff[i].addressShifted
          /\ diffResult.diff[j].status = "added"
          /\ diffResult.diff[j].addressV1 = Null

\* ---------------------------------------------------------------------------
\* The memory diff of files whose sections change by many percentages
\* ---------------------------------------------------------------------------

MaxSeverityLines == 2   \* lines of each of the two texts that are diffed

\* .text of main.o of size 1000, at two addresses, of size 1200 and of size
\* 2000, and .bss.x of size 10241
SeverityLines ==
    { SectionLine(N_text, <<"0","8","0","0">>, <<"3","e","8">>, SP \o F_main_o),
      SectionLine(N_text, <<"1","8","0","0">>, <<"3","e","8">>, SP \o F_main_o),
      SectionLine(N_text, <<"0","8","0","0">>, <<"4","b","0">>, SP \o F_main_o),
      SectionLine(N_text, <<"0","8","0","0">>, <<"7","d","0">>, SP \o F_main_o),
      SectionLine(N_bss_x, <<"2","0","0","0">>, <<"2","8","0","1">>, <<>>) }

InitSeverity ==
    /\ contentA \in Texts(SeverityLines, MaxSeverityLines)
    /\ contentB \in Texts(SeverityLines, MaxSeverityLines)
    /\ InitResults

NextSeverity == ParseFileA \/ ParseFileB \/ ComputeMemoryDiff

SpecSeverity == InitSeverity /\ [][NextSeverity]_vars

\* the severity of an anomaly by its status, its sizes and its sizeDiff
SeverityAsStated(a) ==
    IF a.status \in {"added", "removed"}
    THEN (IF Abs(a.sizeDiff) > 10240 THEN "critical" ELSE "high")
    ELSE IF Abs(a.sizeDiff) * 100 > 50 * a.sizeV1 THEN "critical"
    ELSE IF Abs(a.sizeDiff) * 100 > 25 * a.sizeV1 THEN "high"
    ELSE IF Abs(a.sizeDiff) * 100 > 10 * a.sizeV1 THEN "medium"
    ELSE "low"

SeverityRank(severity) ==
    CASE severity = "critical" -> 4 [] severity = "high" -> 3
      [] severity = "medium" -> 2 [] severity = "low" -> 1

\* C25: every anomaly of computeMemoryDiff has a severity: for 'added' and
\* 'removed', 'critical' when |sizeDiff| > 10240 and 'high' otherwise; for the
\* other statuses 'critical' when |sizeDiffPct| > 50, 'high' when > 25,
\* 'medium' when > 10 and 'low' otherwise, with sizeDiffPct the percentage
\* 100 x sizeDiff / sizeV1; and the anomalies are in the order of
\* non-increasing rank critical > high > medium > low
C25_SeverityAndOrder ==
    Diffed =>
        /\ \A i \in 1..Len(diffResult.anomalies) :
              /\ diffResult.anomalies[i].severity
                     \in {"critical", "high", "medium", "low"}
              /\ diffResult.anomalies[i].severity = SeverityAsStated(diffResult.anomalies[i])
        /\ \A i, j \in 1..Len(diffResult.anomalies) :
              i < j => SeverityRank(diffResult.anomalies[i].severity)
                           >= SeverityRank(diffResult.anomalies[j].severity)

\* a critical anomaly of an added section is listed before the low anomaly of
\* an entry of unchanged size that is flagged for its address shift alone
C25_Witness ==
    /\ Diffed
    /\ Len(diffResult.anomalies) = 2
    /\ diffResult.anomalies[1].severity = "critical"
    /\ diffResult.anomalies[1].status = "added"
    /\ diffResult.anomalies[2].severity = "low"
    /\ diffResult.anomalies[2].status = "same"
    /\ diffResult.anomalies[2].addressShifted

\* ---------------------------------------------------------------------------
\* The store while the process runs: the hourly timer keeps firing
\* ---------------------------------------------------------------------------

\* setInterval(cleanupExpired, 60 * 60 * 1000) fires again and again for as
\* long as the process runs: a sweep that has something to remove is not
\* put off for ever
SpecCacheFair == InitCache /\ [][NextCache]_vars /\ WF_vars(CleanupTimer)

\* the entry of compareId is in the store and its expiry time has passed
Expired(compareId) ==
    /\ compareId \in DOMAIN compareStore
    /\ now > compareStore[compareId].expiresAt

\* C26: an entry whose expiry time has passed is eventually removed from the
\* store, whether or not any call arrives, by the sweep of the hourly timer
C26_EventuallyRemoved ==
    \A compareId \in Ids :
        Expired(compareId) ~> (compareId \notin DOMAIN compareStore)

\* the last call stored an entry that has since expired and is gone from the
\* store: no call came after it, the timer removed it
C26_Witness ==
    /\ lastCall.op = "store"
    /\ lastCall.id \notin DOMAIN compareStore
    /\ \E p \in puts : p.id = lastCall.id /\ now > p.expiresAt

\* the step swept the store: the ids other than those `written` by the step
\* are removed exactly when their expiresAt is earlier than the current time,
\* which is when getComparison would answer null for them, and those that stay
\* keep their entry; no id appears but those written
Swept(written) ==
    /\ \A id \in DOMAIN compareStore \ written :
          /\ (id \notin DOMAIN compareStore') <=> (compareStore[id].expiresAt < now)
          /\ (id \notin DOMAIN compareStore') <=>
                 (getComparison(compareStore, id, now).result = Null)
          /\ id \in DOMAIN compareStore' => compareStore'[id] = compareStore[id]
    /\ DOMAIN compareStore' \subseteq DOMAIN compareStore \cup written

\* C27: the sweep, run by the timer or inside storeComparison or getStats,
\* removes the entries whose expiresAt is earlier than the current time and
\* only those, by the test of expiry that getComparison applies, and leaves
\* every other entry as it was
C27_SweepOnlyExpired ==
    [][/\ CleanupTimer => Swept({})
       /\ GetStats => Swept({})
       /\ \A result \in Results, random \in RandomHex :
              StoreComparison(result, random) => Swept({lastCall'.id})]_vars

\* a getStats swept an expired entry away and left an entry that is not expired
C27_Witness ==
    /\ lastCall.op = "stats"
    /\ lastCall.evicted # {}
    /\ DOMAIN compareStore # {}
    /\ \A id \in DOMAIN compareStore : ~(now > compareStore[id].expiresAt)

\* ---------------------------------------------------------------------------
\* The memory diff of files whose sections name files with a colon
\* ---------------------------------------------------------------------------

MaxPathLines == 2   \* lines of each of the two texts that are diffed

\* .text of main.o, of c:main.o, of lib.a:main.o and of no file
PathLines ==
    { SectionLine(N_text, <<"0","8","0","0">>, <<"3","e","8">>, SP \o F_main_o),
      SectionLine(N_text, <<"0","8","0","0">>, <<"4","b","0">>, SP \o <<"c", ":">> \o F_main_o),
      SectionLine(N_text, <<"0","8","0","0">>, <<"4","0","0">>, SP \o <<"l","i","b",".","a",":">> \o F_main_o),
      SectionLine(N_text, <<"0","8","0","0">>, <<"3","e","8">>, <<>>) }

InitPaths ==
    /\ contentA \in Texts(PathLines, MaxPathLines)
    /\ contentB \in Texts(PathLines, MaxPathLines)
    /\ InitResults

NextPaths == ParseFileA \/ ParseFileB \/ ComputeMemoryDiff

SpecPaths == InitPaths /\ [][NextPaths]_vars

\* the entry that computeMemoryDiff builds for the key of section s
EntryOfKey(s) ==
    DiffEntry(analysisA.sections, analysisB.sections, SectionKey(s),
              diffResult.metadata.options)

\* the entry of the key of s is in the diff list and has the name and the
\* filePath of s
ReportsSection(s) ==
    /\ EntryOfKey(s) \in RangeOf(diffResult.diff)
    /\ EntryOfKey(s).name = s.name
    /\ EntryOfKey(s).filePath = s.filePath

\* C28 as stated: for every section of v1 or v2, the diff entry built for its
\* key reports the name of the section and the filePath of the section (null
\* when it has none), whatever filePath the parser produced
C28_EntryReportsSection ==
    Diffed =>
        /\ \A i \in 1..Len(analysisA.sections) : ReportsSection(analysisA.sections[i])
        /\ \A i \in 1..Len(analysisB.sections) : ReportsSection(analysisB.sections[i])

\* C29 as stated: the summary of compareAnalyses agrees with its section
\* list: flashDelta is the sum of delta over the section diffs named .text*
\* or .rodata*, and ramDelta the sum of delta over those named .data* or
\* .bss*, for either value of includeUnchanged
C29_SummaryMatchesSections ==
    Compared =>
        /\ compareResult.summary.flashDelta
               = SumDelta(SelectSeq(compareResult.sections, IsFlash))
        /\ compareResult.summary.ramDelta
               = SumDelta(SelectSeq(compareResult.sections, IsRam))

\* the name and filePath of every section of the list
PairsOf(sections) ==
    {<<sections[i].name, sections[i].filePath>> : i \in 1..Len(sections)}

\* the places of the diff list whose entry reports the name and filePath
PlacesOf(diff, pair) ==
    {i \in 1..Len(diff) : diff[i].name = pair[1] /\ diff[i].filePath = pair[2]}

\* C30: the diff list of computeMemoryDiff has exactly one entry for each
\* distinct key of v1 and v2 together, unchanged ones included; each entry has
\* one of the five statuses, 'same' only when its key is in both versions and
\* sizeDiff = 0; sectionsAdded + sectionsRemoved + sectionsGrowth +
\* sectionsShrink + sectionsUnchanged is the length of diff, and anomalyCount
\* is the length of anomalies
C30_OneEntryPerKey ==
    Diffed =>
        LET pairsV1 == PairsOf(analysisA.sections)
            pairsV2 == PairsOf(analysisB.sections)
            diff == diffResult.diff
            summary == diffResult.summary
        IN  /\ Len(diff) = Cardinality(pairsV1 \cup pairsV2)
            /\ \A pair \in pairsV1 \cup pairsV2 : Cardinality(PlacesOf(diff, pair)) = 1
            /\ \A i \in 1..Len(diff) :
                  /\ diff[i].status \in {"added", "removed", "growth", "shrink", "same"}
                  /\ diff[i].status = "same" =>
                         /\ <<diff[i].name, diff[i].filePath>> \in pairsV1 \cap pairsV2
                         /\ diff[i].sizeDiff = 0
            /\ summary.sectionsAdded + summary.sectionsRemoved + summary.sectionsGrowth
                   + summary.sectionsShrink + summary.sectionsUnchanged = Len(diff)
            /\ summary.anomalyCount = Len(diffResult.anomalies)

\* both versions have two sections of the same two keys: the diff has two
\* entries, one unchanged and one flagged as an anomaly
C30_Witness ==
    /\ Diffed
    /\ Len(analysisA.sections) = 2
    /\ Len(analysisB.sections) = 2
    /\ Len(diffResult.diff) = 2
    /\ diffResult.summary.sectionsUnchanged = 1
    /\ diffResult.summary.anomalyCount = 1

====
